---- MODULE Spec2Model ----
(***************************************************************************)
(* Model of the tool-calling core of the chat bot:                         *)
(*   - ToolExecutor.execute_tool_loop        (src/ai/tool_executor.py)     *)
(*   - MCPServerManager                      (src/mcp_manager.py)          *)
(* SpecLoop runs one invocation of execute_tool_loop against a scripted    *)
(* LLM API and a scripted mcp_manager.execute_tool.                        *)
(* SpecMgr runs get_all_tools / execute_tool of one MCPServerManager       *)
(* against scripted tool servers and a clock; SpecConc, SpecSeq and        *)
(* SpecConcLive run its coroutines, SpecExtract its result extraction.     *)
(* The parts of the bot around them have a specification each:             *)
(* SpecProc (process_text_message), SpecRate (check_rate_limit),           *)
(* SpecTyping (typing indicator and echo_message), SpecAuth (access        *)
(* control).                                                               *)
(***************************************************************************)
EXTENDS Integers, Sequences, FiniteSets, TLC



\* ------------------------------------------------------------------------
\* Bounds
\* ------------------------------------------------------------------------
MaxIter == 2
MaxCalls == 2

\* longest chat history found stored when the model starts
MaxStored == 3

\* frames of process_text_message the interpreter allows on top of the first
MaxDepth == 3

\* last tick of the rate limiter's clock
MaxClock == 6

\* messages handed to echo_message
MaxMessages == 3

\* ------------------------------------------------------------------------
\* execute_tool_loop: values
\* ------------------------------------------------------------------------
Placeholder == "I used tools but couldn't generate a text response."

NoContent == ""
Contents == {NoContent, "text"}

ToolNames == {"lookup", "fetch"}

GoodArgs == "{\"q\":\"x\"}"
BadArgs == "{\"q\":"
ArgPayloads == {GoodArgs, BadArgs}

\* the (name, raw arguments) pairs the scripted LLM asks for
ToolCallKinds == {<<"lookup", GoodArgs>>, <<"fetch", BadArgs>>}

\* json.loads(tool_call.function.arguments): a dict, or JSONDecodeError
JsonLoads(arguments) ==
    IF arguments = GoodArgs
    THEN [ok |-> TRUE, value |-> <<"q", "x">>]
    ELSE [ok |-> FALSE, value |-> "JSONDecodeError"]

\* Python values handed around as tool results: a str or a dict
PyStr(s) == <<"str", s>>
PyErrorDict(msg) == <<"dict", "error", msg>>

\* json.dumps(result) of a dict
JsonDumps(d) == <<"json", d[2], d[3]>>

\* outcomes of await self.mcp_manager.execute_tool(tool_name, tool_args):
\* it returns a str, or raises an Exception (tool not found, timeout, or an
\* execution error: the loop catches all three with one `except Exception`)
ToolOutcomes == {"ok", "raised"}

ToolResultText == "42"

\* str(e) of the exception raised by execute_tool
ExcMessage(outcome) == "tool failure"

\* the tool calls of the n-th response of the LLM API (ids are unique)
CallId(n, i) == n * (MaxCalls + 1) + i

ToolCallLists(n) ==
    UNION { { [i \in 1..len |-> [id |-> CallId(n, i),
                                 name |-> f[i][1],
                                 arguments |-> f[i][2]]]
              : f \in [1..len -> ToolCallKinds] }
            : len \in 0..MaxCalls }

\* chat_completion.choices[0].message of the n-th response
Responses(n) ==
    { [content |-> c, tool_calls |-> tcs]
        : c \in Contents, tcs \in ToolCallLists(n) }

InitialHistory ==
    << [role |-> "system", content |-> "Keep your responses concise"],
       [role |-> "user", content |-> "question"] >>

\* ------------------------------------------------------------------------
\* MCPServerManager: values
\* ------------------------------------------------------------------------
\* number of clock ticks the model lets pass
MaxTicks == 2

\* self._cache_ttl and self._session_ttl (300 s each), in ticks of 150 s
CacheTtl == 2
SessionTtl == 2

\* time.time() when the manager is constructed: far beyond the ttl, what
\* matters for the initial self._cache_timestamp = 0
StartTime == CacheTtl + 1

\* self.configs: the enabled server configurations, in configuration order
Configs == <<"A", "B">>
Servers == {Configs[i] : i \in 1..Len(Configs)}

\* tool names the servers may expose, in the order list_tools reports them
ToolOrder == <<"lookup", "fetch">>
MgrTools == {ToolOrder[i] : i \in 1..Len(ToolOrder)}

\* how a server behaves during one operation of the manager:
\*   "ok"       connect and list_tools succeed
\*   "connfail" stdio_client / initialize raises when a session is created
\*   "listfail" session.list_tools() raises
Healths == {"ok", "connfail", "listfail"}

\* how session.call_tool under asyncio.wait_for ends
CallOutcomes == {"ok", "timeout", "error"}

EmptyMap == [x \in {} |-> x]

\* dict with a key set
MapPut(m, k, v) == [x \in DOMAIN m \cup {k} |-> IF x = k THEN v ELSE m[x]]

\* mutant: deleting a key leaves the dict as it was
MapRemoveNothing(m, k) == m

\* dict without a key
MapRemove(m, k) == [x \in DOMAIN m \ {k} |-> m[x]]

\* mutant: the pop empties the whole cache
CachePopClear(cache, k) ==
    EmptyMap

\* self._tool_cache.pop(tool_name, None)
CachePop(cache, k) ==
    IF k \in DOMAIN cache THEN MapRemove(cache, k) ELSE cache

\* the tool that servers start and stop exposing; the other one stays on B
MovingTool == "lookup"
ToolPlacements ==
    { [s \in Servers |-> IF s = "B" THEN a \cup {"fetch"} ELSE b]
        : a \in SUBSET {MovingTool}, b \in SUBSET {MovingTool} }

\* what is recorded of a manager operation: the requests sent to servers
\* (contacts), per server how its discovery went (disc: "none", "ok",
\* "failed"), the sessions close_all_sessions closed, in order, with how
\* their context managers exited (closing), and how the operation ended
NoOp == [op |-> "none", tool |-> "none", contacts |-> <<>>,
         disc |-> [s \in Servers |-> "none"],
         closing |-> <<>>,
         outcome |-> "none", exc |-> "none", value |-> <<>>,
         refreshed |-> FALSE, searched |-> FALSE]

\* ------------------------------------------------------------------------
\* State
\* ------------------------------------------------------------------------
VARIABLES
    lpc,            \* position of execute_tool_loop
    max_iterations, \* self.max_iterations
    message,        \* local `message`
    iteration,      \* local `iteration`
    history,        \* the caller's conversation buffer
    callIdx,        \* index of the next tool call of message.tool_calls
    retText,        \* final_response returned
    retFlag,        \* max_iterations_reached returned
    responses,      \* responses received from the LLM API, initial one first
    resubs,         \* calls of client.chat.completions.create made by the loop
    sent,           \* `messages` argument of every such call
    executed,       \* <<call id, outcome>> of every mcp_manager.execute_tool call
    roundBase,      \* Len(history) when the current round began
    apiFailed,      \* a resubmission raised
    now,              \* time.time(), in ticks
    srvTools,         \* the tools each server reports in list_tools
    tool_cache,       \* self._tool_cache: tool name -> server name
    tools_list_cache, \* self._tools_list_cache
    cache_timestamp,  \* self._cache_timestamp
    active_sessions,  \* self._active_sessions: server name -> session data
    last,             \* the last manager operation: inputs, contacts, result
    co,               \* the coroutines running on the manager's event loop
    sess,             \* every session created so far, by number
    mcp_result,       \* the result envelope handed to _extract_result_content
    extracted,        \* what _extract_result_content returned for it
    ppc,               \* position of process_text_message
    copy,              \* the copy of process_text_message that runs
    s3_history,        \* the chat's history in the object store
    history_text_only, \* local `history_text_only`
    api_history,       \* local `history`, the messages sent to the API
    chat_message,      \* local `message`
    attempt,           \* local `attempt` of the retry loop
    depth,             \* frames of process_text_message below the running one
    tool_iteration,    \* local `iteration` of the tool loop
    creates,           \* calls of create for the request and its retries
    failures,          \* how many of them raised
    bad_request,       \* the first call raised BadRequestError
    ai_response,       \* the text returned
    entry_history,     \* the stored history when the call began
    read_history,      \* the history the running frame read
    clock,             \* time.time(), in ticks
    rate_limit_data,   \* rate_limit_data: chat id -> timestamps
    allowed_log,       \* the time of every call check_rate_limit allowed
    rate_last,         \* the last message at the wrapper and what it got
    typing_states,     \* typing_states: chat id -> stop event (thread number)
    typing_threads,    \* every typing thread started so far, by number
    echo,              \* the running call of echo_message, or the last one
    echoed,            \* calls of echo_message that have finished
    users_db,          \* users_db["users"]: lower-case username -> status
    auth_last          \* the last access-control call and what it returned

loopVars == <<lpc, max_iterations, message, iteration, history, callIdx,
              retText, retFlag, responses, resubs, sent, executed,
              roundBase, apiFailed>>

mgrVars == <<now, srvTools, tool_cache, tools_list_cache, cache_timestamp,
             active_sessions, last>>

concVars == <<co, sess>>

extractVars == <<mcp_result, extracted>>

procVars == <<ppc, copy, s3_history, history_text_only, api_history,
              chat_message, attempt, depth, tool_iteration, creates,
              failures, bad_request, ai_response, entry_history,
              read_history>>

rateVars == <<clock, rate_limit_data, allowed_log, rate_last>>

typingVars == <<typing_states, typing_threads, echo, echoed>>

authVars == <<users_db, auth_last>>

appVars == <<procVars, rateVars, typingVars, authVars>>

otherThanProc == <<loopVars, mgrVars, concVars, extractVars, rateVars,
                   typingVars, authVars>>

otherThanRate == <<loopVars, mgrVars, concVars, extractVars, procVars,
                   typingVars, authVars>>

otherThanTyping == <<loopVars, mgrVars, concVars, extractVars, procVars,
                     rateVars, authVars>>

otherThanAuth == <<loopVars, mgrVars, concVars, extractVars, procVars,
                   rateVars, typingVars>>

vars == <<loopVars, mgrVars, concVars, extractVars, appVars>>

\* ------------------------------------------------------------------------
\* MCPServerManager
\* ------------------------------------------------------------------------

\* mutant: the emptiness test of _is_cache_valid is dropped
IsCacheValidNoEmptyCheck(cache, stamp, t) == (t - stamp) < CacheTtl

\* _is_cache_valid
IsCacheValid(cache, stamp, t) ==
    IF DOMAIN cache = {}
    THEN FALSE
    ELSE (t - stamp) < CacheTtl

\* mutant: closing a session leaves its entry in the table
CloseSessionKeep(sessions, name) ==
    sessions

\* _close_session: the entry is deleted whether or not __aexit__ raised
CloseSession(sessions, name) ==
    IF name \in DOMAIN sessions THEN MapRemove(sessions, name) ELSE sessions

\* mutant: a server without a table entry is treated as dead, no connection
\* is attempted
GetOrCreateSessionReuseOnly(sessions, name, t, connects) ==
    IF name \in DOMAIN sessions /\ (t - sessions[name].last_used) < SessionTtl
    THEN [sessions |-> [sessions EXCEPT ![name].last_used = t],
          ok |-> TRUE, created |-> FALSE]
    ELSE IF name \in DOMAIN sessions /\ connects
    THEN [sessions |-> [sessions EXCEPT ![name].last_used = t],
          ok |-> TRUE, created |-> TRUE]
    ELSE [sessions |-> CloseSession(sessions, name),
          ok |-> FALSE, created |-> FALSE]

\* _get_or_create_session: the session table afterwards, and whether a
\* session was returned (ok) or the connection attempt raised
GetOrCreateSession(sessions, name, t, connects) ==
    IF name \in DOMAIN sessions /\ (t - sessions[name].last_used) < SessionTtl
    THEN [sessions |-> [sessions EXCEPT ![name].last_used = t],
          ok |-> TRUE, created |-> FALSE]
    ELSE LET closed == CloseSession(sessions, name)
         IN IF connects
            THEN [sessions |-> MapPut(closed, name, [last_used |-> t]),
                  ok |-> TRUE, created |-> TRUE]
            ELSE [sessions |-> closed, ok |-> FALSE, created |-> FALSE]

\* tools_result.tools of a server, as a list
ListedTools(tools) ==
    SelectSeq(ToolOrder, LAMBDA n : n \in tools)

\* the OpenAI-formatted entries of one server's tools
FormatTools(name, tools) ==
    LET listed == ListedTools(tools)
    IN [i \in 1..Len(listed) |-> [name |-> listed[i], _mcp_server |-> name]]

\* self._tool_cache[tool.name] = config.name for every listed tool
CacheTools(cache, name, tools) ==
    [x \in DOMAIN cache \cup tools |-> IF x \in tools THEN name ELSE cache[x]]

\* mutant: no try/except around the body, a failing server ends the refresh
DiscoverServerNoIsolation(acc, name, health, tools, t) ==
    LET g == GetOrCreateSession(acc.sessions, name, t, health # "connfail")
    IN IF ~g.ok
       THEN [acc EXCEPT !.sessions = g.sessions,
                        !.disc[name] = "failed",
                        !.raised = TRUE]
       ELSE IF health = "listfail"
       THEN [acc EXCEPT !.sessions = g.sessions,
                        !.contacts = Append(@, <<name, "list_tools">>),
                        !.disc[name] = "failed",
                        !.raised = TRUE]
       ELSE [acc EXCEPT !.sessions = g.sessions,
                        !.contacts = Append(@, <<name, "list_tools">>),
                        !.disc[name] = "ok",
                        !.all_tools = @ \o FormatTools(name, tools),
                        !.cache = CacheTools(@, name, tools)]

\* get_all_tools: the body of `for config in self.configs` for one config,
\* with its try/except; acc carries sessions, tool_cache, all_tools, contacts
\* and disc
DiscoverServer(acc, name, health, tools, t) ==
    LET g == GetOrCreateSession(acc.sessions, name, t, health # "connfail")
    IN IF ~g.ok
       THEN [acc EXCEPT !.sessions = CloseSession(g.sessions, name),
                        !.disc[name] = "failed"]
       ELSE IF health = "listfail"
       THEN [acc EXCEPT !.sessions = CloseSession(g.sessions, name),
                        !.contacts = Append(@, <<name, "list_tools">>),
                        !.disc[name] = "failed"]
       ELSE [acc EXCEPT !.sessions = g.sessions,
                        !.contacts = Append(@, <<name, "list_tools">>),
                        !.disc[name] = "ok",
                        !.all_tools = @ \o FormatTools(name, tools),
                        !.cache = CacheTools(@, name, tools)]

\* get_all_tools: the loop over self.configs[i..]
RECURSIVE DiscoverFrom(_, _, _, _, _)
DiscoverFrom(acc, i, health, tools, t) ==
    IF i > Len(Configs) \/ acc.raised
    THEN acc
    ELSE DiscoverFrom(DiscoverServer(acc, Configs[i], health[Configs[i]],
                                     tools[Configs[i]], t),
                      i + 1, health, tools, t)

\* mutant: the cached list is returned whenever the cache is valid
UseCachedToolsValidOnly(cache, list, stamp, t) ==
    IsCacheValid(cache, stamp, t)

\* get_all_tools: the test that guards the cached return
UseCachedTools(cache, list, stamp, t) ==
    IsCacheValid(cache, stamp, t) /\ list # <<>>

\* mutant: the cache is never consulted, every call searches
GetConfigFromCacheMiss(cache, stamp, t, tool_name) ==
    "None"

\* _get_config_from_cache: the cached server name, or "None". The cache only
\* ever holds names of self.configs, so the branch that pops an entry whose
\* server is not configured changes nothing.
GetConfigFromCache(cache, stamp, t, tool_name) ==
    IF ~IsCacheValid(cache, stamp, t) \/ tool_name \notin DOMAIN cache
    THEN "None"
    ELSE IF cache[tool_name] \in Servers THEN cache[tool_name] ELSE "None"

\* mutant: the except clause of the search re-raises instead of `continue`
SearchOnErrorAbort(acc, name, sessions) ==
    [acc EXCEPT !.sessions = CloseSession(sessions, name),
                !.disc[name] = "failed",
                !.raised = TRUE]

\* _find_server_with_tool: what the except clause of the loop body does with
\* a failing server: close its session and continue with the next config
SearchOnError(acc, name, sessions) ==
    [acc EXCEPT !.sessions = CloseSession(sessions, name),
                !.disc[name] = "failed"]

\* mutant: the search asks one server only and gives up after it
FindFromFirstOnly(acc, i, tool_name, health, tools, t) ==
    IF i > Len(Configs) \/ acc.found # "None" \/ acc.raised
    THEN acc
    ELSE LET name == Configs[i]
             g == GetOrCreateSession(acc.sessions, name, t,
                                     health[name] # "connfail")
         IN IF ~g.ok
            THEN SearchOnError(acc, name, g.sessions)
            ELSE IF health[name] = "listfail"
            THEN SearchOnError(
                     [acc EXCEPT !.contacts = Append(@, <<name, "list_tools">>)],
                     name, g.sessions)
            ELSE IF tool_name \in tools[name]
            THEN [acc EXCEPT !.sessions = g.sessions,
                             !.contacts = Append(@, <<name, "list_tools">>),
                             !.disc[name] = "ok",
                             !.cache = MapPut(@, tool_name, name),
                             !.found = name]
            ELSE [acc EXCEPT !.sessions = g.sessions,
                             !.contacts = Append(@, <<name, "list_tools">>),
                             !.disc[name] = "ok"]

\* _find_server_with_tool: the loop over self.configs[i..]; acc carries
\* sessions, tool_cache, contacts, disc, found ("None" or a server name) and
\* raised (an exception left the search)
RECURSIVE FindFrom(_, _, _, _, _, _)
FindFrom(acc, i, tool_name, health, tools, t) ==
    IF i > Len(Configs) \/ acc.found # "None" \/ acc.raised
    THEN acc
    ELSE LET name == Configs[i]
             g == GetOrCreateSession(acc.sessions, name, t,
                                     health[name] # "connfail")
             next ==
               IF ~g.ok
               THEN SearchOnError(acc, name, g.sessions)
               ELSE IF health[name] = "listfail"
               THEN SearchOnError(
                        [acc EXCEPT !.contacts = Append(@, <<name, "list_tools">>)],
                        name, g.sessions)
               ELSE IF tool_name \in tools[name]
               THEN [acc EXCEPT !.sessions = g.sessions,
                                !.contacts = Append(@, <<name, "list_tools">>),
                                !.disc[name] = "ok",
                                !.cache = MapPut(@, tool_name, name),
                                !.found = name]
               ELSE [acc EXCEPT !.sessions = g.sessions,
                                !.contacts = Append(@, <<name, "list_tools">>),
                                !.disc[name] = "ok"]
         IN FindFrom(next, i + 1, tool_name, health, tools, t)

\* result envelopes of call_tool: at most MaxItems content items
MaxItems == 3

\* the text a TextContent item carries
Texts == {"", "4 results"}

\* content items: TextContent has a text attribute, ImageContent and
\* EmbeddedResource have none
ContentItems ==
    [type : {"text"}, text : Texts]
       \cup [type : {"image", "resource"}, text : {"absent"}]

\* hasattr(content_item, 'text')
HasText(item) == item.type = "text"

\* results with a content list, and a result object without the attribute
ResultEnvelopes ==
    [has_content : {TRUE},
     content : UNION { [1..n -> ContentItems] : n \in 0..MaxItems }]
       \cup { [has_content |-> FALSE, content |-> <<>>] }

\* str() of a content item, of a content list and of a whole result: three
\* different strings, each one determined by the object rendered
RECURSIVE StrOfItems(_)
StrOfItems(items) ==
    IF items = <<>> THEN <<>>
    ELSE <<items[1].type, items[1].text>> \o StrOfItems(Tail(items))

StrOfItem(item) == <<"str", "item">> \o StrOfItems(<<item>>)

StrOfContent(content) == <<"str", "list">> \o StrOfItems(content)

StrOfResult(result) ==
    <<"str", IF result.has_content THEN "result" ELSE "object">>
       \o StrOfItems(result.content)

\* the value of a str expression that is the text t itself
TextValue(t) == <<t>>

\* mutant: a first item without text makes the whole result be rendered
ExtractResultContentWhole(result) ==
    IF result.has_content /\ result.content # <<>>
       /\ HasText(result.content[1])
    THEN TextValue(result.content[1].text)
    ELSE StrOfResult(result)

\* _extract_result_content
ExtractResultContent(result) ==
    IF result.has_content /\ result.content # <<>>
    THEN IF Len(result.content) > 0
         THEN LET content_item == result.content[1]
              IN IF HasText(content_item)
                 THEN TextValue(content_item.text)
                 ELSE StrOfItem(content_item)
         ELSE StrOfContent(result.content)
    ELSE StrOfResult(result)

\* nothing has been extracted yet
Unset == <<"unset", "unset", "unset">>

\* _extract_result_content is not used
ExtractIdle ==
    /\ mcp_result = [has_content |-> FALSE, content |-> <<>>]
    /\ extracted = Unset

\* the text of the result in the calls of the manager, where only the tool
\* that ran and the server that ran it matter
ToolResult(tool_name, name) ==
    << [name |-> tool_name, _mcp_server |-> name] >>

\* mutant: an execution error closes the session but leaves the cache entry
ExecuteToolOnServerNoEvict(acc, name, tool_name, health, call, t) ==
    LET g == GetOrCreateSession(acc.sessions, name, t, health[name] # "connfail")
    IN IF ~g.ok
       THEN [sessions |-> CloseSession(g.sessions, name),
             cache |-> acc.cache,
             contacts |-> acc.contacts,
             outcome |-> "raised", exc |-> "error", value |-> <<>>]
       ELSE IF call = "ok"
       THEN [sessions |-> g.sessions,
             cache |-> acc.cache,
             contacts |-> Append(acc.contacts, <<name, "call_tool">>),
             outcome |-> "returned", exc |-> "none",
             value |-> ToolResult(tool_name, name)]
       ELSE [sessions |-> CloseSession(g.sessions, name),
             cache |-> acc.cache,
             contacts |-> Append(acc.contacts, <<name, "call_tool">>),
             outcome |-> "raised",
             exc |-> IF call = "timeout" THEN "timeout" ELSE "error",
             value |-> <<>>]

\* _execute_tool_on_server on server `name`; acc as in FindFrom.
\* Gives sessions, cache, contacts and how the call ended.
ExecuteToolOnServer(acc, name, tool_name, health, call, t) ==
    LET g == GetOrCreateSession(acc.sessions, name, t, health[name] # "connfail")
    IN IF ~g.ok
       THEN [sessions |-> CloseSession(g.sessions, name),
             cache |-> CachePop(acc.cache, tool_name),
             contacts |-> acc.contacts,
             outcome |-> "raised", exc |-> "error", value |-> <<>>]
       ELSE IF call = "ok"
       THEN [sessions |-> g.sessions,
             cache |-> acc.cache,
             contacts |-> Append(acc.contacts, <<name, "call_tool">>),
             outcome |-> "returned", exc |-> "none",
             value |-> ToolResult(tool_name, name)]
       ELSE IF call = "timeout"
       THEN [sessions |-> CloseSession(g.sessions, name),
             cache |-> acc.cache,
             contacts |-> Append(acc.contacts, <<name, "call_tool">>),
             outcome |-> "raised", exc |-> "timeout", value |-> <<>>]
       ELSE [sessions |-> CloseSession(g.sessions, name),
             cache |-> CachePop(acc.cache, tool_name),
             contacts |-> Append(acc.contacts, <<name, "call_tool">>),
             outcome |-> "raised", exc |-> "error", value |-> <<>>]

\* the orders in which list(self._active_sessions.keys()) can hold the keys
\* of the table: the insertion order of the dict, which the table of the
\* model does not record
KeyOrders(keys) ==
    { q \in [1..Cardinality(keys) -> keys] :
         \A i, j \in 1..Cardinality(keys) : q[i] = q[j] => i = j }

\* mutant: an exception of __aexit__ leaves _close_session after the entry
\* was deleted
CloseOneRaise(acc, name, exits) ==
    [sessions |-> CloseSession(acc.sessions, name),
     closing |-> Append(acc.closing,
                        <<name, IF exits[name] THEN "closed"
                                ELSE "close_error">>),
     raised |-> ~exits[name]]

\* close_all_sessions: one `await self._close_session(server_name)`. An
\* exception of either __aexit__ is caught and logged, the finally clause
\* deletes the entry
CloseOne(acc, name, exits) ==
    [sessions |-> CloseSession(acc.sessions, name),
     closing |-> Append(acc.closing,
                        <<name, IF exits[name] THEN "closed"
                                ELSE "close_error">>),
     raised |-> FALSE]

\* close_all_sessions: the loop over names[i..], the keys listed before the
\* first close
RECURSIVE CloseAllFrom(_, _, _, _)
CloseAllFrom(acc, names, i, exits) ==
    IF i > Len(names) \/ acc.raised
    THEN acc
    ELSE CloseAllFrom(CloseOne(acc, names[i], exits), names, i + 1, exits)

\* state of the manager after __init__
MgrStart ==
    /\ now = StartTime
    /\ srvTools \in ToolPlacements
    /\ tool_cache = EmptyMap
    /\ tools_list_cache = <<>>
    /\ cache_timestamp = 0
    /\ active_sessions = EmptyMap
    /\ last = NoOp

\* the loop is not running
LoopIdle ==
    /\ lpc = "idle"
    /\ max_iterations = 0
    /\ message = [content |-> NoContent, tool_calls |-> <<>>]
    /\ iteration = 0
    /\ history = <<>>
    /\ callIdx = 0
    /\ retText = "unset"
    /\ retFlag = FALSE
    /\ responses = <<>>
    /\ resubs = 0
    /\ sent = <<>>
    /\ executed = <<>>
    /\ roundBase = 0
    /\ apiFailed = FALSE

\* await mcp_manager.get_all_tools()
GetAllTools ==
    IF UseCachedTools(tool_cache, tools_list_cache, cache_timestamp, now)
    THEN /\ last' = [NoOp EXCEPT !.op = "get_all_tools",
                                 !.outcome = "returned",
                                 !.value = tools_list_cache]
         /\ UNCHANGED <<now, srvTools, tool_cache, tools_list_cache,
                        cache_timestamp, active_sessions>>
    ELSE \E health \in [Servers -> Healths] :
         \E acc \in { DiscoverFrom([sessions |-> active_sessions,
                                      cache |-> tool_cache,
                                      all_tools |-> <<>>,
                                      contacts |-> <<>>,
                                      disc |-> NoOp.disc,
                                      raised |-> FALSE],
                                     1, health, srvTools, now) } :
              /\ active_sessions' = acc.sessions
              /\ tool_cache' = acc.cache
              /\ cache_timestamp' = IF acc.raised THEN cache_timestamp ELSE now
              /\ tools_list_cache' = IF acc.raised THEN tools_list_cache
                                     ELSE acc.all_tools
              /\ last' = [NoOp EXCEPT !.op = "get_all_tools",
                                      !.contacts = acc.contacts,
                                      !.disc = acc.disc,
                                      !.outcome = IF acc.raised THEN "raised"
                                                  ELSE "returned",
                                      !.exc = IF acc.raised THEN "error"
                                              ELSE "none",
                                      !.value = IF acc.raised THEN <<>>
                                                ELSE acc.all_tools,
                                      !.refreshed = TRUE]
              /\ UNCHANGED <<now, srvTools>>

\* await mcp_manager.execute_tool(tool_name, arguments)
ExecuteTool ==
    \E tool_name \in MgrTools, health \in [Servers -> Healths] :
    \E cached \in { GetConfigFromCache(tool_cache, cache_timestamp, now,
                                       tool_name) } :
    \E found \in { IF cached = "None"
                   THEN FindFrom([sessions |-> active_sessions,
                                  cache |-> tool_cache,
                                  contacts |-> <<>>,
                                  disc |-> NoOp.disc,
                                  found |-> "None",
                                  raised |-> FALSE],
                                 1, tool_name, health, srvTools, now)
                   ELSE [sessions |-> active_sessions,
                         cache |-> tool_cache,
                         contacts |-> <<>>,
                         disc |-> NoOp.disc,
                         found |-> cached,
                         raised |-> FALSE] } :
      LET op == [NoOp EXCEPT !.op = "execute_tool", !.tool = tool_name,
                             !.searched = (cached = "None"),
                             !.disc = found.disc]
      IN IF found.raised \/ found.found = "None"
         THEN /\ active_sessions' = found.sessions
              /\ tool_cache' = found.cache
              /\ last' = [op EXCEPT !.contacts = found.contacts,
                                    !.outcome = "raised",
                                    !.exc = IF found.raised THEN "error"
                                            ELSE "notfound"]
              /\ UNCHANGED <<now, srvTools, tools_list_cache, cache_timestamp>>
         ELSE \E call \in CallOutcomes :
              /\ tool_name \notin srvTools[found.found] => call # "ok"
              /\ \E r \in { ExecuteToolOnServer(found, found.found, tool_name,
                                                health, call, now) } :
                 /\ active_sessions' = r.sessions
                 /\ tool_cache' = r.cache
                 /\ last' = [op EXCEPT !.contacts = r.contacts,
                                       !.outcome = r.outcome,
                                       !.exc = r.exc,
                                       !.value = r.value]
                 /\ UNCHANGED <<now, srvTools, tools_list_cache,
                                cache_timestamp>>

\* await mcp_manager.close_all_sessions(); exits tells for each server
\* whether its context managers exit without an exception
CloseAllSessions ==
    \E exits \in [Servers -> BOOLEAN],
       names \in KeyOrders(DOMAIN active_sessions) :
    \E acc \in { CloseAllFrom([sessions |-> active_sessions,
                               closing |-> <<>>,
                               raised |-> FALSE],
                              names, 1, exits) } :
       /\ active_sessions' = acc.sessions
       /\ last' = [NoOp EXCEPT !.op = "close_all_sessions",
                               !.closing = acc.closing,
                               !.outcome = IF acc.raised THEN "raised"
                                           ELSE "returned",
                               !.exc = IF acc.raised THEN "error"
                                       ELSE "none"]
       /\ UNCHANGED <<now, srvTools, tool_cache, tools_list_cache,
                      cache_timestamp>>

\* time passes
Tick ==
    /\ now < StartTime + MaxTicks
    /\ now' = now + 1
    /\ UNCHANGED <<srvTools, tool_cache, tools_list_cache, cache_timestamp,
                   active_sessions, last>>

\* a server starts or stops exposing a tool
ServerToolsChange ==
    /\ \E s \in Servers :
         srvTools' = [srvTools EXCEPT ![s] =
                         IF MovingTool \in @ THEN @ \ {MovingTool}
                         ELSE @ \cup {MovingTool}]
    /\ UNCHANGED <<now, tool_cache, tools_list_cache, cache_timestamp,
                   active_sessions, last>>

\* the manager is not used
MgrIdle ==
    /\ now = StartTime
    /\ srvTools = [s \in Servers |-> {}]
    /\ tool_cache = EmptyMap
    /\ tools_list_cache = <<>>
    /\ cache_timestamp = 0
    /\ active_sessions = EmptyMap
    /\ last = NoOp

\* ------------------------------------------------------------------------
\* MCPServerManager under concurrent calls: coroutines of one event loop,
\* which interleave at their await expressions
\* ------------------------------------------------------------------------

\* the coroutines that run get_all_tools / execute_tool at the same time
Procs == {"p1", "p2"}

\* sessions are numbered as they are created; at most MaxSessions of them
MaxSessions == 2

\* self.configs of the manager the coroutines share: one enabled server, so
\* every `for config in self.configs` loop has one iteration
ConcConfigs == <<"A">>

\* what list_tools of each server reports while the coroutines run
ConcTools == [s \in Servers |-> IF s = "A" THEN {"lookup"} ELSE {"fetch"}]

\* how an awaited list_tools ends (it has no timeout of its own)
ListOutcomes == {"ok", "error"}

\* a coroutine that is not inside a manager call; result is how its last
\* call ended
IdleCo ==
    [pc |-> "idle", tool |-> "none", stage |-> "none", session |-> 0,
     cont |-> "none", result |-> "none"]

\* a call returns or raises: the coroutine is done
CoReturn(st, result) ==
    [st EXCEPT !.c = [IdleCo EXCEPT !.result = result]]

\* the code that follows `await self._close_session(...)` at each call site
CoAfterClose(st, cont, t) ==
    CASE cont = "connect" ->
            [st EXCEPT !.c.pc = "connecting", !.c.cont = "none"]
      [] cont = "search_fail" ->
            CoReturn(st, "notfound")
      [] cont = "discover_fail" ->
            CoReturn([st EXCEPT !.stamp = t, !.list = <<>>], "returned")
      [] cont = "raise_timeout" ->
            CoReturn(st, "timeout")
      [] cont = "raise_error" ->
            CoReturn([st EXCEPT !.cache = MapRemove(@, st.c.tool)], "error")
      [] cont = "close_all" ->
            CoReturn(st, "returned")
      [] OTHER ->
            CoReturn([st EXCEPT !.cache = MapRemove(@, st.c.tool)], "keyerror")

\* _close_session up to its first await: nothing to do when the name is not
\* in the table; otherwise the __aexit__ of the recorded session is started
\* (the session is closed from here on) and the coroutine is suspended, the
\* entry still in the table
CoCloseSessionBegin(st, name, cont, why, t) ==
    IF name \in DOMAIN st.table
    THEN LET id == st.table[name].session
         IN [st EXCEPT !.sess[id] = IF @.live
                                    THEN [live |-> FALSE, why |-> why]
                                    ELSE @,
                       !.c.pc = "closing",
                       !.c.cont = cont]
    ELSE CoAfterClose(st, cont, t)

\* an exception reaches the except clause of the call the coroutine is in
\* (get_all_tools, _find_server_with_tool or _execute_tool_on_server): each
\* of them awaits _close_session first
CoRaise(st, name, kind, t) ==
    CASE st.c.stage = "discover" ->
            CoCloseSessionBegin(st, name, "discover_fail", "discovery", t)
      [] st.c.stage = "search" ->
            CoCloseSessionBegin(st, name, "search_fail", "search", t)
      [] kind = "timeout" ->
            CoCloseSessionBegin(st, name, "raise_timeout", "timeout", t)
      [] kind = "error" ->
            CoCloseSessionBegin(st, name, "raise_error", "error", t)
      [] OTHER ->
            CoCloseSessionBegin(st, name, "raise_keyerror", "error", t)

\* mutant: a session of the table is reused whatever its age
CoGetOrCreateSessionNoTtl(st, name, stage, t) ==
    IF name \in DOMAIN st.table
    THEN [st EXCEPT !.table[name].last_used = t,
                    !.c.pc = "inflight",
                    !.c.stage = stage,
                    !.c.session = st.table[name].session]
    ELSE [st EXCEPT !.c.pc = "connecting", !.c.stage = stage]

\* _get_or_create_session up to its first await, followed by the protocol
\* request of the caller when the pooled session is returned (no await lies
\* between the two)
CoGetOrCreateSession(st, name, stage, t) ==
    IF name \in DOMAIN st.table
       /\ (t - st.table[name].last_used) < SessionTtl
    THEN [st EXCEPT !.table[name].last_used = t,
                    !.c.pc = "inflight",
                    !.c.stage = stage,
                    !.c.session = st.table[name].session]
    ELSE IF name \in DOMAIN st.table
    THEN CoCloseSessionBegin([st EXCEPT !.c.stage = stage], name,
                             "connect", "expired", t)
    ELSE [st EXCEPT !.c.pc = "connecting", !.c.stage = stage]

\* _close_session resumed after its awaits: the finally clause deletes the
\* entry of the name, whichever session it holds by now, and raises KeyError
\* when another coroutine has deleted it in between
CoCloseSessionEnd(st, name, t) ==
    IF name \in DOMAIN st.table
    THEN CoAfterClose([st EXCEPT !.table = MapRemove(@, name)], st.c.cont, t)
    ELSE IF st.c.cont = "connect"
    THEN CoRaise(st, name, "keyerror", t)
    ELSE CoReturn(st, "keyerror")

\* the shared state as coroutine p sees it
CoState(p) ==
    [c |-> co[p], table |-> active_sessions, sess |-> sess,
     cache |-> tool_cache, list |-> tools_list_cache,
     stamp |-> cache_timestamp]

\* coroutine p runs up to its next await and leaves the state st
CoApply(p, st) ==
    /\ co' = [co EXCEPT ![p] = st.c]
    /\ active_sessions' = st.table
    /\ sess' = st.sess
    /\ tool_cache' = st.cache
    /\ tools_list_cache' = st.list
    /\ cache_timestamp' = st.stamp
    /\ UNCHANGED <<now, srvTools, last>>

\* no coroutine uses the manager
ConcIdle ==
    /\ co = [p \in Procs |-> IdleCo]
    /\ sess = <<>>

\* ------------------------------------------------------------------------
\* process_text_message: one chat, one call at a time, in both copies of
\* the function (src/ai/processor.py and src/bot.py).  The object store is
\* taken to answer every request; the tool list requested before the first
\* call only changes the parameters of the API calls and is left out.
\* ------------------------------------------------------------------------
\* the copy of process_text_message that runs
Copies == {"processor", "bot"}

\* MAX_HISTORY_LENGTH, in messages
MAX_HISTORY_LENGTH == 2

\* API_MAX_RETRIES
API_MAX_RETRIES == 2

\* MCP_MAX_ITERATIONS
MCP_MAX_ITERATIONS == 2

\* a text message of the conversation
Msg(role, content) == [role |-> role, content |-> content, tool_calls |-> FALSE]

\* the message of the user that is processed
UserText == "hi"

UserMessage == Msg("user", UserText)

\* system_message
SystemMessage == Msg("system", "Keep your responses concise")

\* the assistant message with tool calls the tool loop appends
ToolCallsMessage(content) ==
    [role |-> "assistant", content |-> content, tool_calls |-> TRUE]

\* the tool message the tool loop appends for a tool call
ToolMessage == Msg("tool", "tool result")

\* the fixed text returned when the retries are exhausted
\* ("Произошла ошибка при обработке запроса. Попробуйте позже.")
RetryErrorMessage == "request processing error, try later"

\* what chat.completions.create does: a response, a BadRequestError, or
\* another exception
ApiOutcomes == {"ok", "bad_request", "error"}

\* the messages of a response: content or none, with or without tool calls
ChatMessages == [content : Contents, tool_calls : BOOLEAN]

NoChatMessage == [content |-> NoContent, tool_calls |-> FALSE]

\* the histories a chat may have stored before a call
OldMessages == {Msg("user", "old"), Msg("assistant", "old")}

StoredHistories ==
    UNION {[1..n -> OldMessages] : n \in 0..MaxStored}

\* mutant: the history is used untrimmed
TrimHistoryNone(h) == h

\* if len(history) > MAX_HISTORY_LENGTH: history = history[-MAX_HISTORY_LENGTH:]
TrimHistory(h) ==
    IF Len(h) > MAX_HISTORY_LENGTH
    THEN SubSeq(h, Len(h) - MAX_HISTORY_LENGTH + 1, Len(h))
    ELSE h

\* ai_response = message.content if message.content else "<placeholder>"
AiResponse(msg) ==
    IF msg.content # NoContent THEN msg.content ELSE Placeholder

\* while message.tool_calls and iteration < MCP_MAX_ITERATIONS
ToolLoopContinues(msg, iter) ==
    msg.tool_calls /\ iter < MCP_MAX_ITERATIONS

\* the locals of a frame of process_text_message before its first statement
FrameReset ==
    /\ history_text_only' = <<>>
    /\ api_history' = <<>>
    /\ chat_message' = NoChatMessage
    /\ attempt' = 0
    /\ tool_iteration' = 0

\* no call of process_text_message was made
ProcIdle ==
    /\ ppc = "idle"
    /\ copy = "processor"
    /\ s3_history = <<>>
    /\ history_text_only = <<>>
    /\ api_history = <<>>
    /\ chat_message = NoChatMessage
    /\ attempt = 0
    /\ depth = 0
    /\ tool_iteration = 0
    /\ creates = 0
    /\ failures = 0
    /\ bad_request = FALSE
    /\ ai_response = ""
    /\ entry_history = <<>>
    /\ read_history = <<>>

\* the history is read and trimmed; history_text_only and history are built
ProcEntry ==
    /\ ppc = "entry"
    /\ read_history' = s3_history
    /\ history_text_only' = Append(TrimHistory(s3_history), UserMessage)
    /\ api_history' = <<SystemMessage>> \o TrimHistory(s3_history) \o <<UserMessage>>
    /\ ppc' = "create"
    /\ UNCHANGED <<copy, s3_history, chat_message, attempt, depth,
                   tool_iteration, creates, failures, bad_request,
                   ai_response, entry_history>>

\* src/ai/processor.py, the first call raised BadRequestError:
\* for attempt in range(API_MAX_RETRIES): ... else: return <error message>
OnBadRequestProcessor ==
    /\ failures' = failures + 1
    /\ bad_request' = TRUE
    /\ attempt' = 0
    /\ IF API_MAX_RETRIES = 0
       THEN ppc' = "returned" /\ ai_response' = RetryErrorMessage
       ELSE ppc' = "retry" /\ UNCHANGED ai_response
    /\ UNCHANGED <<s3_history, history_text_only, api_history,
                   chat_message, depth, tool_iteration, read_history>>

\* src/bot.py, the first call raised BadRequestError:
\* clear_history_for_chat(chat_id); return process_text_message(text, chat_id)
\* A call beyond the interpreter's recursion limit raises RecursionError,
\* which no frame handles.
OnBadRequestBot ==
    /\ failures' = failures + 1
    /\ bad_request' = TRUE
    /\ s3_history' = <<>>
    /\ IF depth < MaxDepth
       THEN /\ depth' = depth + 1
            /\ ppc' = "entry"
            /\ FrameReset
       ELSE /\ ppc' = "raised"
            /\ UNCHANGED <<depth, history_text_only, api_history,
                           chat_message, attempt, tool_iteration>>
    /\ UNCHANGED <<ai_response, read_history>>

\* the first chat.completions.create of a frame and its except clause
ProcCreate ==
    /\ ppc = "create"
    /\ creates' = creates + 1
    /\ \E out \in ApiOutcomes :
         CASE out = "ok" ->
                /\ \E m \in ChatMessages : chat_message' = m
                /\ ppc' = "tools"
                /\ UNCHANGED <<s3_history, history_text_only, api_history,
                               attempt, depth, tool_iteration, failures,
                               bad_request, ai_response, read_history>>
           [] out = "error" ->
                /\ ppc' = "raised"
                /\ failures' = failures + 1
                /\ UNCHANGED <<s3_history, history_text_only, api_history,
                               chat_message, attempt, depth, tool_iteration,
                               bad_request, ai_response, read_history>>
           [] out = "bad_request" /\ copy = "processor" ->
                OnBadRequestProcessor
           [] out = "bad_request" /\ copy = "bot" ->
                OnBadRequestBot
    /\ UNCHANGED <<copy, entry_history>>

\* one pass of the retry loop of src/ai/processor.py
ProcRetry ==
    /\ ppc = "retry"
    /\ copy = "processor"
    /\ s3_history' = <<>>
    /\ creates' = creates + 1
    /\ \E out \in ApiOutcomes :
         IF out = "ok"
         THEN /\ \E m \in ChatMessages : chat_message' = m
              /\ ppc' = "tools"
              /\ UNCHANGED <<attempt, failures, ai_response>>
         ELSE /\ failures' = failures + 1
              /\ IF attempt = API_MAX_RETRIES - 1
                 THEN /\ ppc' = "returned"
                      /\ ai_response' = RetryErrorMessage
                      /\ UNCHANGED attempt
                 ELSE /\ ppc' = "retry"
                      /\ attempt' = attempt + 1
                      /\ UNCHANGED ai_response
              /\ UNCHANGED chat_message
    /\ UNCHANGED <<copy, history_text_only, api_history, depth,
                   tool_iteration, bad_request, entry_history, read_history>>

\* one pass of the tool loop: the tool calls are added and executed, one
\* tool message each, and the conversation is resubmitted; json.loads of
\* the arguments is outside the try and may raise
ProcToolRound ==
    /\ ppc = "tools"
    /\ ToolLoopContinues(chat_message, tool_iteration)
    /\ tool_iteration' = tool_iteration + 1
    /\ \E out \in {"ok", "error", "bad_arguments"} :
         CASE out = "bad_arguments" ->
                /\ api_history' = Append(api_history,
                                         ToolCallsMessage(chat_message.content))
                /\ ppc' = "raised"
                /\ UNCHANGED chat_message
           [] out = "ok" ->
                /\ api_history' = api_history \o
                       <<ToolCallsMessage(chat_message.content), ToolMessage>>
                /\ \E m \in ChatMessages : chat_message' = m
                /\ ppc' = "tools"
           [] out = "error" ->
                /\ api_history' = api_history \o
                       <<ToolCallsMessage(chat_message.content), ToolMessage>>
                /\ ppc' = "finish"
                /\ UNCHANGED chat_message
    /\ UNCHANGED <<copy, s3_history, history_text_only, attempt, depth,
                   creates, failures, bad_request, ai_response,
                   entry_history, read_history>>

\* the final text is taken, appended to history_text_only, and the
\* history is saved
ProcFinish ==
    /\ \/ ppc = "finish"
       \/ ppc = "tools" /\ ~ToolLoopContinues(chat_message, tool_iteration)
    /\ ai_response' = AiResponse(chat_message)
    /\ history_text_only' =
           Append(history_text_only, Msg("assistant", AiResponse(chat_message)))
    /\ s3_history' = history_text_only'
    /\ ppc' = "returned"
    /\ UNCHANGED <<copy, api_history, chat_message, attempt, depth,
                   tool_iteration, creates, failures, bad_request,
                   entry_history, read_history>>

\* the next message of the chat is handed to process_text_message
ProcNextMessage ==
    /\ ppc \in {"returned", "raised"}
    /\ ppc' = "entry"
    /\ FrameReset
    /\ depth' = 0
    /\ creates' = 0
    /\ failures' = 0
    /\ bad_request' = FALSE
    /\ ai_response' = ""
    /\ entry_history' = s3_history
    /\ read_history' = <<>>
    /\ UNCHANGED <<copy, s3_history>>

\* ------------------------------------------------------------------------
\* check_rate_limit and the rate_limited wrapper.  time.time() is a clock
\* that never goes back, read in ticks of 1/TicksPerSecond seconds.
\* ------------------------------------------------------------------------
Chats == {"c1", "c2"}

\* ticks per second of the clock
TicksPerSecond == 2

\* RATE_LIMIT_REQUESTS
RATE_LIMIT_REQUESTS == 2

\* RATE_LIMIT_WINDOW, in seconds
RATE_LIMIT_WINDOW == 2

WindowTicks == RATE_LIMIT_WINDOW * TicksPerSecond

\* rate_limit_data[chat_id] once `if chat_id not in rate_limit_data` ran
StampsOf(data, chat_id) ==
    IF chat_id \in DOMAIN data THEN data[chat_id] ELSE <<>>

\* [timestamp for timestamp in ... if current_time - timestamp < RATE_LIMIT_WINDOW]
RecentStamps(stamps, current_time) ==
    SelectSeq(stamps, LAMBDA timestamp : current_time - timestamp < WindowTicks)

\* mutant: the limit is exceeded by one request more
LimitReachedLate(stamps) == Len(stamps) > RATE_LIMIT_REQUESTS

\* len(rate_limit_data[chat_id]) >= RATE_LIMIT_REQUESTS
LimitReached(stamps) == Len(stamps) >= RATE_LIMIT_REQUESTS

\* int(RATE_LIMIT_WINDOW - (current_time - oldest_request)), in seconds
WaitTime(oldest_request, current_time) ==
    (WindowTicks - (current_time - oldest_request)) \div TicksPerSecond

\* check_rate_limit(chat_id) at current_time: the table it leaves and the
\* pair it returns
CheckRateLimit(data, chat_id, current_time) ==
    LET recent == RecentStamps(StampsOf(data, chat_id), current_time)
    IN  IF LimitReached(recent)
        THEN [data |-> MapPut(data, chat_id, recent),
              allowed |-> FALSE,
              wait_time |-> WaitTime(recent[1], current_time)]
        ELSE [data |-> MapPut(data, chat_id, Append(recent, current_time)),
              allowed |-> TRUE,
              wait_time |-> 0]

NoCheck == [chat |-> "none", admin |-> FALSE, allowed |-> FALSE,
            wait_time |-> 0, ran |-> FALSE]

\* no message passed the wrapper
RateIdle ==
    /\ clock = 0
    /\ rate_limit_data = EmptyMap
    /\ allowed_log = [c \in Chats |-> <<>>]
    /\ rate_last = NoCheck

\* the wrapper of rate_limited for a message of chat c: an admin's message
\* goes to the handler unchecked, another one only when check_rate_limit
\* allows it
RateLimited(c, admin) ==
    IF admin
    THEN /\ rate_last' = [chat |-> c, admin |-> TRUE, allowed |-> FALSE,
                          wait_time |-> 0, ran |-> TRUE]
         /\ UNCHANGED <<clock, rate_limit_data, allowed_log>>
    ELSE \E r \in {CheckRateLimit(rate_limit_data, c, clock)} :
         /\ rate_limit_data' = r.data
         /\ allowed_log' =
               IF r.allowed
               THEN [allowed_log EXCEPT ![c] = Append(@, clock)]
               ELSE allowed_log
         /\ rate_last' = [chat |-> c, admin |-> FALSE, allowed |-> r.allowed,
                          wait_time |-> r.wait_time, ran |-> r.allowed]
         /\ UNCHANGED clock

\* time passes
ClockTick ==
    /\ clock < MaxClock
    /\ clock' = clock + 1
    /\ UNCHANGED <<rate_limit_data, allowed_log, rate_last>>

\* ------------------------------------------------------------------------
\* The typing indicator of src/bot.py and the message handler that starts
\* and stops it.  TeleBot(threaded=False) runs one handler at a time; the
\* typing threads run beside it.
\* ------------------------------------------------------------------------
NoEcho == [pc |-> "idle", chat |-> "none", path |-> "none"]

\* no message was handled and no typing thread was started
TypingIdle ==
    /\ typing_states = EmptyMap
    /\ typing_threads = <<>>
    /\ echo = NoEcho
    /\ echoed = 0

\* start_typing(chat_id): nothing if the chat has an entry, otherwise a new
\* stop event, stored in typing_states, and a thread running typing()
StartTyping(states, threads, chat_id) ==
    IF chat_id \in DOMAIN states
    THEN [states |-> states, threads |-> threads]
    ELSE [states |-> MapPut(states, chat_id, Len(threads) + 1),
          threads |-> Append(threads, [chat |-> chat_id,
                                       stop_event |-> FALSE,
                                       alive |-> TRUE])]

\* stop_typing(chat_id): the event of the chat's entry is set and the entry
\* is deleted; nothing if the chat has no entry
StopTyping(states, threads, chat_id) ==
    IF chat_id \in DOMAIN states
    THEN [states |-> MapRemove(states, chat_id),
          threads |-> [threads EXCEPT ![states[chat_id]].stop_event = TRUE]]
    ELSE [states |-> states, threads |-> threads]

\* echo_message up to the try block: the rate limit let the message pass,
\* start_typing(message.chat.id)
EchoStart(c) ==
    /\ echo.pc = "idle"
    /\ echoed < MaxMessages
    /\ \E r \in {StartTyping(typing_states, typing_threads, c)} :
         /\ typing_states' = r.states
         /\ typing_threads' = r.threads
    /\ echo' = [pc |-> "processing", chat |-> c, path |-> "none"]
    /\ UNCHANGED echoed

\* the try block ended without an exception: stop_typing(message.chat.id),
\* and the response is sent
EchoSucceed ==
    /\ echo.pc = "processing"
    /\ \E r \in {StopTyping(typing_states, typing_threads, echo.chat)} :
         /\ typing_states' = r.states
         /\ typing_threads' = r.threads
    /\ echo' = [pc |-> "idle", chat |-> echo.chat, path |-> "success"]
    /\ echoed' = echoed + 1

\* the try block raised (get_file, download_file or process_text_message):
\* except Exception: the error is logged and replied, return
EchoFail ==
    /\ echo.pc = "processing"
    /\ echo' = [pc |-> "idle", chat |-> echo.chat, path |-> "error"]
    /\ echoed' = echoed + 1
    /\ UNCHANGED <<typing_states, typing_threads>>

\* one pass of typing(chat_id, stop_event): the thread ends when its event
\* is set or send_chat_action raises, and sends and waits otherwise
TypingPass(i) ==
    /\ i \in 1..Len(typing_threads)
    /\ typing_threads[i].alive
    /\ \E sent_ok \in BOOLEAN :
         typing_threads' =
             [typing_threads EXCEPT ![i].alive =
                 ~typing_threads[i].stop_event /\ sent_ok]
    /\ typing_threads' # typing_threads
    /\ UNCHANGED <<typing_states, echo, echoed>>

\* ------------------------------------------------------------------------
\* Access control: the users database, register_user, set_user_status and
\* the authorization checks.  The object store is taken to answer every
\* request.
\* ------------------------------------------------------------------------
\* message.from_user.username is None
NoUsername == ""

\* ADMIN_USERNAME
ADMIN_USERNAME == "boss_admin"

\* the usernames messages come from
Usernames == {NoUsername, "Boss_Admin", "alice_w", "Alice_W", "bob_77", "al"}

\* username.lower()
Lower(username) ==
    CASE username = "Boss_Admin" -> "boss_admin"
      [] username = "Alice_W" -> "alice_w"
      [] OTHER -> username

\* validate_username: 5 to 32 characters, letters, digits and underscores,
\* no digit first
ValidateUsername(username) ==
    username \in {"Boss_Admin", "boss_admin", "alice_w", "Alice_W", "bob_77"}

\* the statuses the admin commands hand to set_user_status
SettableStatuses == {"approved", "denied"}

\* mutant: a registered user is registered anew
RegisterUserAnew(db, username) ==
    IF ~ValidateUsername(username)
    THEN [db |-> db, status |-> "invalid_username"]
    ELSE [db |-> MapPut(db, Lower(username), "pending"), status |-> "pending"]

\* register_user(username, chat_id): the users database it leaves and the
\* status it returns
RegisterUser(db, username) ==
    IF ~ValidateUsername(username)
    THEN [db |-> db, status |-> "invalid_username"]
    ELSE IF Lower(username) \in DOMAIN db
         THEN [db |-> db, status |-> db[Lower(username)]]
         ELSE [db |-> MapPut(db, Lower(username), "pending"),
               status |-> "pending"]

\* get_user_status(username); "none" stands for None
GetUserStatus(db, username) ==
    IF username = NoUsername THEN "denied"
    ELSE IF Lower(username) = Lower(ADMIN_USERNAME) THEN "approved"
    ELSE IF Lower(username) \in DOMAIN db THEN db[Lower(username)]
    ELSE "none"

\* set_user_status(username, status): the users database it leaves and
\* what it returns
SetUserStatus(db, username, status) ==
    IF username = NoUsername \/ Lower(username) \notin DOMAIN db
    THEN [db |-> db, ok |-> FALSE]
    ELSE [db |-> MapPut(db, Lower(username), status), ok |-> TRUE]

\* is_admin(message)
IsAdmin(username) ==
    username # NoUsername /\ Lower(username) = Lower(ADMIN_USERNAME)

\* is_authorized(message): the users database it leaves and what it returns
IsAuthorized(db, username) ==
    IF username = NoUsername THEN [db |-> db, ok |-> FALSE]
    ELSE IF Lower(username) = Lower(ADMIN_USERNAME) THEN [db |-> db, ok |-> TRUE]
    ELSE LET r == RegisterUser(db, username)
         IN  [db |-> r.db, ok |-> r.status = "approved"]

\* should_process_message(message)
ShouldProcessMessage(db, username) ==
    IF username = NoUsername THEN FALSE
    ELSE IF Lower(username) = Lower(ADMIN_USERNAME) THEN TRUE
    ELSE GetUserStatus(db, username) = "approved"

NoAuthOp == [op |-> "none", username |-> NoUsername, ok |-> FALSE]

\* no message arrived and nobody is registered
AuthIdle ==
    /\ users_db = EmptyMap
    /\ auth_last = NoAuthOp

\* a message of username passes is_authorized
AuthorizeMessage(username) ==
    \E r \in {IsAuthorized(users_db, username)} :
        /\ users_db' = r.db
        /\ auth_last' = [op |-> "is_authorized", username |-> username,
                         ok |-> r.ok]

\* a message of username passes the filter should_process_message
FilterMessage(username) ==
    /\ users_db' = users_db
    /\ auth_last' = [op |-> "should_process_message", username |-> username,
                     ok |-> ShouldProcessMessage(users_db, username)]

\* the admin approves or denies username
ChangeStatus(username, status) ==
    \E r \in {SetUserStatus(users_db, username, status)} :
        /\ users_db' = r.db
        /\ auth_last' = [op |-> "set_user_status", username |-> username,
                         ok |-> r.ok]

\* no part of the bot outside the tool loop and the manager runs
AppIdle ==
    /\ ProcIdle
    /\ RateIdle
    /\ TypingIdle
    /\ AuthIdle

\* ------------------------------------------------------------------------
\* execute_tool_loop
\* ------------------------------------------------------------------------

\* while message.tool_calls and iteration < self.max_iterations
LoopCondition(msg, iter, maxIter) ==
    msg.tool_calls # <<>> /\ iter < maxIter

\* mutant: the flag is computed one iteration early
MaxIterationsReachedEarly(iter, maxIter) == iter + 1 >= maxIter

\* max_iterations_reached = iteration >= self.max_iterations
MaxIterationsReached(iter, maxIter) == iter >= maxIter

\* mutant: the content of the message is returned as it is
FinalResponseRaw(msg) ==
    msg.content

\* message.content if message.content else "<placeholder>"
FinalResponse(msg) ==
    IF msg.content # NoContent THEN msg.content ELSE Placeholder

\* _add_tool_call_to_history
AssistantToolCallMessage(msg) ==
    [role |-> "assistant",
     content |-> msg.content,
     tool_calls |-> [i \in 1..Len(msg.tool_calls) |->
                       [id |-> msg.tool_calls[i].id,
                        type |-> "function",
                        function |-> [name |-> msg.tool_calls[i].name,
                                      arguments |-> msg.tool_calls[i].arguments]]]]

\* _execute_single_tool_call, after the arguments were parsed:
\* the result of execute_tool, or {"error": error_msg} when it raised
SingleToolCallResult(tool_call, outcome) ==
    IF outcome = "ok"
    THEN PyStr(ToolResultText)
    ELSE PyErrorDict(<<"Error executing tool", tool_call.name, ExcMessage(outcome)>>)

\* _add_tool_result_to_history
ToolResultMessage(tool_call, result) ==
    [role |-> "tool",
     tool_call_id |-> tool_call.id,
     name |-> tool_call.name,
     content |-> IF result[1] = "dict" THEN JsonDumps(result) ELSE result]

\* mutant: the batch is left after its first call
AfterToolCallFirstOnly(i, n) ==
    "resubmit"

\* where execute_tool_loop goes after the i-th of n tool calls has been
\* handled: the next pass of the for loop, or the resubmission behind it
AfterToolCall(i, n) ==
    IF i = n THEN "resubmit" ELSE "exec"

\* where the loop goes when json.loads raises in _execute_single_tool_call:
\* the call is outside the try block, the exception leaves execute_tool_loop
OnArgumentParseError == "raised"

\* mutant: the except clause around chat.completions.create re-raises
OnApiErrorRaise == "raised"

\* where the loop goes when chat.completions.create raises: break
OnApiError == "break"

InitLoop ==
    /\ lpc = "check"
    /\ max_iterations \in 0..MaxIter
    /\ message \in Responses(0)
    /\ iteration = 0
    /\ history = InitialHistory
    /\ callIdx = 0
    /\ retText = "unset"
    /\ retFlag = FALSE
    /\ responses = <<message>>
    /\ resubs = 0
    /\ sent = <<>>
    /\ executed = <<>>
    /\ roundBase = Len(InitialHistory)
    /\ apiFailed = FALSE
    /\ MgrIdle
    /\ ConcIdle
    /\ ExtractIdle
    /\ AppIdle

\* loop condition true: iteration += 1; _add_tool_call_to_history(history, message)
BeginRound ==
    /\ lpc = "check"
    /\ LoopCondition(message, iteration, max_iterations)
    /\ iteration' = iteration + 1
    /\ roundBase' = Len(history)
    /\ history' = Append(history, AssistantToolCallMessage(message))
    /\ callIdx' = 1
    /\ lpc' = "exec"
    /\ UNCHANGED <<max_iterations, message, retText, retFlag, responses,
                   resubs, sent, executed, apiFailed>>
    /\ UNCHANGED <<mgrVars, concVars, extractVars, appVars>>

\* one pass of `for tool_call in message.tool_calls`:
\* result = await self._execute_single_tool_call(tool_call)
\* self._add_tool_result_to_history(history, tool_call, result)
ExecuteToolCall ==
    /\ lpc = "exec"
    /\ LET tool_call == message.tool_calls[callIdx]
           parsed == JsonLoads(tool_call.arguments)
       IN IF ~parsed.ok
          THEN /\ lpc' = OnArgumentParseError
               /\ UNCHANGED <<history, callIdx, executed>>
          ELSE \E outcome \in ToolOutcomes :
               /\ executed' = Append(executed, <<tool_call.id, outcome>>)
               /\ history' = Append(history,
                      ToolResultMessage(tool_call,
                                        SingleToolCallResult(tool_call, outcome)))
               /\ callIdx' = callIdx + 1
               /\ lpc' = AfterToolCall(callIdx, Len(message.tool_calls))
    /\ UNCHANGED <<max_iterations, message, iteration, retText, retFlag,
                   responses, resubs, sent, roundBase, apiFailed>>
    /\ UNCHANGED <<mgrVars, concVars, extractVars, appVars>>

\* self.client.chat.completions.create(messages=history, ...) returned
ResubmitOk ==
    /\ lpc = "resubmit"
    /\ \E m \in Responses(Len(responses)) :
         /\ message' = m
         /\ responses' = Append(responses, m)
    /\ resubs' = resubs + 1
    /\ sent' = Append(sent, history)
    /\ lpc' = "check"
    /\ UNCHANGED <<max_iterations, iteration, history, callIdx, retText,
                   retFlag, executed, roundBase, apiFailed>>
    /\ UNCHANGED <<mgrVars, concVars, extractVars, appVars>>

\* self.client.chat.completions.create raised
ResubmitFail ==
    /\ lpc = "resubmit"
    /\ resubs' = resubs + 1
    /\ sent' = Append(sent, history)
    /\ apiFailed' = TRUE
    /\ lpc' = OnApiError
    /\ UNCHANGED <<max_iterations, message, iteration, history, callIdx,
                   retText, retFlag, responses, executed, roundBase>>
    /\ UNCHANGED <<mgrVars, concVars, extractVars, appVars>>

\* after the loop: return final_response, max_iterations_reached
Finish ==
    /\ \/ lpc = "break"
       \/ lpc = "check" /\ ~LoopCondition(message, iteration, max_iterations)
    /\ retFlag' = MaxIterationsReached(iteration, max_iterations)
    /\ retText' = FinalResponse(message)
    /\ lpc' = "returned"
    /\ UNCHANGED <<max_iterations, message, iteration, history, callIdx,
                   responses, resubs, sent, executed, roundBase, apiFailed>>
    /\ UNCHANGED <<mgrVars, concVars, extractVars, appVars>>

NextLoop ==
    \/ BeginRound
    \/ ExecuteToolCall
    \/ ResubmitOk
    \/ ResubmitFail
    \/ Finish

SpecLoop == InitLoop /\ [][NextLoop]_vars

InitMgr == LoopIdle /\ MgrStart /\ ConcIdle /\ ExtractIdle /\ AppIdle

NextMgr ==
    \/ GetAllTools /\ UNCHANGED <<loopVars, concVars, extractVars, appVars>>
    \/ ExecuteTool /\ UNCHANGED <<loopVars, concVars, extractVars, appVars>>
    \/ CloseAllSessions /\ UNCHANGED <<loopVars, concVars, extractVars, appVars>>
    \/ Tick /\ UNCHANGED <<loopVars, concVars, extractVars, appVars>>
    \/ ServerToolsChange /\ UNCHANGED <<loopVars, concVars, extractVars, appVars>>

SpecMgr == InitMgr /\ [][NextMgr]_vars

\* ------------------------------------------------------------------------
\* _extract_result_content applied to the results call_tool can return
\* ------------------------------------------------------------------------

\* return self._extract_result_content(result)
ExtractResult ==
    /\ extracted = Unset
    /\ extracted' = ExtractResultContent(mcp_result)
    /\ UNCHANGED mcp_result

\* the next call_tool returns another result
NextResult ==
    /\ extracted # Unset
    /\ mcp_result' \in ResultEnvelopes
    /\ extracted' = Unset

InitExtract ==
    /\ LoopIdle
    /\ MgrIdle
    /\ ConcIdle
    /\ AppIdle
    /\ mcp_result \in ResultEnvelopes
    /\ extracted = Unset

NextExtract ==
    \/ ExtractResult /\ UNCHANGED <<loopVars, mgrVars, concVars, appVars>>
    \/ NextResult /\ UNCHANGED <<loopVars, mgrVars, concVars, appVars>>

SpecExtract == InitExtract /\ [][NextExtract]_vars

\* ------------------------------------------------------------------------
\* Concurrent calls of the manager, one step per stretch between awaits
\* ------------------------------------------------------------------------

\* coroutine p calls get_all_tools and runs to its first await
CoGetAllTools(p) ==
    /\ co[p].pc = "idle"
    /\ \E st \in { [CoState(p) EXCEPT !.c = IdleCo] } :
         IF UseCachedTools(tool_cache, tools_list_cache, cache_timestamp, now)
         THEN CoApply(p, CoReturn(st, "returned"))
         ELSE CoApply(p, CoGetOrCreateSession(st, ConcConfigs[1],
                                              "discover", now))

\* coroutine p calls execute_tool(x) and runs to its first await
CoExecuteTool(p) ==
    /\ co[p].pc = "idle"
    /\ \E x \in MgrTools :
       \E st \in { [CoState(p) EXCEPT !.c = [IdleCo EXCEPT !.tool = x]] } :
       \E cached \in { GetConfigFromCache(tool_cache, cache_timestamp, now, x) } :
         IF cached = "None"
         THEN CoApply(p, CoGetOrCreateSession(st, ConcConfigs[1],
                                              "search", now))
         ELSE CoApply(p, CoGetOrCreateSession(st, cached, "dispatch", now))

\* _get_or_create_session resumed after `await session.initialize()`: the new
\* session is stored under the name, replacing whatever entry is there, and
\* the caller sends its request on it
CoConnected(p) ==
    /\ co[p].pc = "connecting"
    /\ Len(sess) < MaxSessions
    /\ \E st \in { CoState(p) } :
         CoApply(p, [st EXCEPT
                       !.sess = Append(@, [live |-> TRUE, why |-> "none"]),
                       !.table = MapPut(@, ConcConfigs[1],
                                        [session |-> Len(sess) + 1,
                                         last_used |-> now]),
                       !.c.pc = "inflight",
                       !.c.session = Len(sess) + 1])

\* the subprocess of the server does not start: stdio_client raises
CoConnectFail(p) ==
    /\ co[p].pc = "connecting"
    /\ CoApply(p, CoRaise(CoState(p), ConcConfigs[1], "error", now))

\* the timer of asyncio.wait_for fires before call_tool has answered
\* coroutine p; wait_for is used at this one await only
CoTimeout(p) ==
    /\ co[p].pc = "inflight"
    /\ co[p].stage = "dispatch"
    /\ CoApply(p, CoRaise(CoState(p), ConcConfigs[1], "timeout", now))

\* the awaited list_tools / call_tool of coroutine p is answered; on a
\* session that has been closed it cannot end well
CoComplete(p) ==
    /\ co[p].pc = "inflight"
    /\ \E st \in { CoState(p) } :
       \E out \in ListOutcomes :
         /\ ~sess[co[p].session].live => out # "ok"
         /\ (co[p].stage = "dispatch"
                /\ co[p].tool \notin srvTools[ConcConfigs[1]]) => out # "ok"
         /\ IF out # "ok"
            THEN CoApply(p, CoRaise(st, ConcConfigs[1], out, now))
            ELSE IF co[p].stage = "discover"
            THEN CoApply(p, CoReturn(
                    [st EXCEPT !.cache = CacheTools(@, ConcConfigs[1],
                                                    srvTools[ConcConfigs[1]]),
                               !.stamp = now,
                               !.list = FormatTools(ConcConfigs[1],
                                                    srvTools[ConcConfigs[1]])],
                    "returned"))
            ELSE IF co[p].stage = "dispatch"
            THEN CoApply(p, CoReturn(st, "returned"))
            ELSE IF co[p].tool \in srvTools[ConcConfigs[1]]
            THEN CoApply(p, CoGetOrCreateSession(
                    [st EXCEPT !.cache = MapPut(@, co[p].tool, ConcConfigs[1])],
                    ConcConfigs[1], "dispatch", now))
            ELSE CoApply(p, CoReturn(st, "notfound"))

\* coroutine p calls close_all_sessions and runs to its first await: the
\* table has at most the entry of the one configured server
CoCloseAllSessions(p) ==
    /\ co[p].pc = "idle"
    /\ \E st \in { [CoState(p) EXCEPT !.c = [IdleCo EXCEPT !.stage = "close"]] } :
         CoApply(p, CoCloseSessionBegin(st, ConcConfigs[1], "close_all",
                                        "shutdown", now))

\* the awaits of _close_session return to coroutine p
CoCloseSession(p) ==
    /\ co[p].pc = "closing"
    /\ CoApply(p, CoCloseSessionEnd(CoState(p), ConcConfigs[1], now))

InitConc ==
    /\ LoopIdle
    /\ now = StartTime
    /\ srvTools = ConcTools
    /\ tool_cache = EmptyMap
    /\ tools_list_cache = <<>>
    /\ cache_timestamp = 0
    /\ active_sessions = EmptyMap
    /\ last = NoOp
    /\ ConcIdle
    /\ ExtractIdle
    /\ AppIdle

NextConc ==
    \/ \E p \in Procs : CoGetAllTools(p) /\ UNCHANGED <<loopVars, extractVars, appVars>>
    \/ \E p \in Procs : CoExecuteTool(p) /\ UNCHANGED <<loopVars, extractVars, appVars>>
    \/ \E p \in Procs : CoConnected(p) /\ UNCHANGED <<loopVars, extractVars, appVars>>
    \/ \E p \in Procs : CoConnectFail(p) /\ UNCHANGED <<loopVars, extractVars, appVars>>
    \/ \E p \in Procs : CoComplete(p) /\ UNCHANGED <<loopVars, extractVars, appVars>>
    \/ \E p \in Procs : CoTimeout(p) /\ UNCHANGED <<loopVars, extractVars, appVars>>
    \/ \E p \in Procs : CoCloseAllSessions(p) /\ UNCHANGED <<loopVars, extractVars, appVars>>
    \/ \E p \in Procs : CoCloseSession(p) /\ UNCHANGED <<loopVars, extractVars, appVars>>
    \/ Tick /\ UNCHANGED <<loopVars, concVars, extractVars, appVars>>

SpecConc == InitConc /\ [][NextConc]_vars

\* the manager with one caller at a time, as through the blocking run_async:
\* one coroutine runs the same steps, time passes while it is suspended
Callers == {"p1"}

NextSeq ==
    \/ \E p \in Callers : CoGetAllTools(p) /\ UNCHANGED <<loopVars, extractVars, appVars>>
    \/ \E p \in Callers : CoExecuteTool(p) /\ UNCHANGED <<loopVars, extractVars, appVars>>
    \/ \E p \in Callers : CoConnected(p) /\ UNCHANGED <<loopVars, extractVars, appVars>>
    \/ \E p \in Callers : CoConnectFail(p) /\ UNCHANGED <<loopVars, extractVars, appVars>>
    \/ \E p \in Callers : CoComplete(p) /\ UNCHANGED <<loopVars, extractVars, appVars>>
    \/ \E p \in Callers : CoTimeout(p) /\ UNCHANGED <<loopVars, extractVars, appVars>>
    \/ \E p \in Callers : CoCloseAllSessions(p) /\ UNCHANGED <<loopVars, extractVars, appVars>>
    \/ \E p \in Callers : CoCloseSession(p) /\ UNCHANGED <<loopVars, extractVars, appVars>>
    \/ Tick /\ UNCHANGED <<loopVars, concVars, extractVars, appVars>>

SpecSeq == InitConc /\ [][NextSeq]_vars

\* the same coroutines on a running event loop: a timer that was armed
\* fires. The answers of the server and the exits of the context managers
\* are not up to the program; nothing obliges them to come.
SpecConcLive ==
    /\ InitConc
    /\ [][NextConc]_vars
    /\ \A p \in Procs : WF_vars(CoTimeout(p) /\ UNCHANGED <<loopVars, extractVars, appVars>>)

InitProc ==
    /\ LoopIdle
    /\ MgrIdle
    /\ ConcIdle
    /\ ExtractIdle
    /\ ppc = "entry"
    /\ copy \in Copies
    /\ s3_history \in StoredHistories
    /\ history_text_only = <<>>
    /\ api_history = <<>>
    /\ chat_message = NoChatMessage
    /\ attempt = 0
    /\ depth = 0
    /\ tool_iteration = 0
    /\ creates = 0
    /\ failures = 0
    /\ bad_request = FALSE
    /\ ai_response = ""
    /\ entry_history = s3_history
    /\ read_history = <<>>
    /\ RateIdle
    /\ TypingIdle
    /\ AuthIdle

NextProc ==
    \/ ProcEntry /\ UNCHANGED otherThanProc
    \/ ProcCreate /\ UNCHANGED otherThanProc
    \/ ProcRetry /\ UNCHANGED otherThanProc
    \/ ProcToolRound /\ UNCHANGED otherThanProc
    \/ ProcFinish /\ UNCHANGED otherThanProc
    \/ ProcNextMessage /\ UNCHANGED otherThanProc

SpecProc == InitProc /\ [][NextProc]_vars

InitRate ==
    /\ LoopIdle
    /\ MgrIdle
    /\ ConcIdle
    /\ ExtractIdle
    /\ ProcIdle
    /\ RateIdle
    /\ TypingIdle
    /\ AuthIdle

NextRate ==
    \/ \E c \in Chats, admin \in BOOLEAN :
           RateLimited(c, admin) /\ UNCHANGED otherThanRate
    \/ ClockTick /\ UNCHANGED otherThanRate

SpecRate == InitRate /\ [][NextRate]_vars

InitTyping ==
    /\ LoopIdle
    /\ MgrIdle
    /\ ConcIdle
    /\ ExtractIdle
    /\ ProcIdle
    /\ RateIdle
    /\ TypingIdle
    /\ AuthIdle

NextTyping ==
    \/ \E c \in Chats : EchoStart(c) /\ UNCHANGED otherThanTyping
    \/ EchoSucceed /\ UNCHANGED otherThanTyping
    \/ EchoFail /\ UNCHANGED otherThanTyping
    \/ \E i \in 1..MaxMessages : TypingPass(i) /\ UNCHANGED otherThanTyping

SpecTyping == InitTyping /\ [][NextTyping]_vars

InitAuth ==
    /\ LoopIdle
    /\ MgrIdle
    /\ ConcIdle
    /\ ExtractIdle
    /\ ProcIdle
    /\ RateIdle
    /\ TypingIdle
    /\ AuthIdle

NextAuth ==
    \/ \E u \in Usernames : AuthorizeMessage(u) /\ UNCHANGED otherThanAuth
    \/ \E u \in Usernames : FilterMessage(u) /\ UNCHANGED otherThanAuth
    \/ \E u \in Usernames, st \in SettableStatuses :
           ChangeStatus(u, st) /\ UNCHANGED otherThanAuth

SpecAuth == InitAuth /\ [][NextAuth]_vars

\* ------------------------------------------------------------------------
\* Properties of execute_tool_loop (checked under SpecLoop)
\* ------------------------------------------------------------------------
IsPrefix(s, t) == Len(s) <= Len(t) /\ SubSeq(t, 1, Len(s)) = s

LastResponse == responses[Len(responses)]

LoopEnded == lpc \in {"returned", "raised"}

\* every response received so far asks for tool calls
AlwaysToolCalls == \A i \in 1..Len(responses) : responses[i].tool_calls # <<>>

\* the call at position i of the current batch has unparsable arguments
Malformed(i) == ~JsonLoads(message.tool_calls[i].arguments).ok

\* the current round is over: all its calls were handled, or it was aborted
RoundOver == lpc \in {"resubmit", "raised"}

\* the tool-result message of the i-th call of the current batch
ResultSlot(i) == roundBase + 1 + i

HasResultFor(i) ==
    /\ Len(history) >= ResultSlot(i)
    /\ history[ResultSlot(i)].role = "tool"
    /\ history[ResultSlot(i)].tool_call_id = message.tool_calls[i].id

HasErrorResultFor(i) ==
    /\ HasResultFor(i)
    /\ history[ResultSlot(i)].content[1] = "json"
    /\ history[ResultSlot(i)].content[2] = "error"

\* C1 (iteration cap): with an LLM that asks for tool calls on every response
\* and max_iterations = k >= 1, the loop makes exactly k resubmissions and then
\* returns hitIterationCap = TRUE with the last assistant text (the placeholder
\* when that text is empty).
C1_IterationCap ==
    (LoopEnded /\ max_iterations >= 1 /\ AlwaysToolCalls /\ ~apiFailed)
        => /\ lpc = "returned"
           /\ resubs = max_iterations
           /\ retFlag = TRUE
           /\ retText = (IF LastResponse.content # NoContent
                         THEN LastResponse.content ELSE Placeholder)

\* the part of C1 that the code does satisfy: the cap holds whenever the loop
\* returns, i.e. whenever no argument payload was malformed
C1_CapWhenReturned ==
    (lpc = "returned" /\ max_iterations >= 1 /\ AlwaysToolCalls /\ ~apiFailed)
        => /\ resubs = max_iterations
           /\ retFlag = TRUE
           /\ retText = (IF LastResponse.content # NoContent
                         THEN LastResponse.content ELSE Placeholder)

RoundShape ==
    /\ Len(history) = roundBase + 1 + Len(message.tool_calls)
    /\ history[roundBase + 1] = AssistantToolCallMessage(message)
    /\ \A i \in 1..Len(message.tool_calls) :
          /\ HasResultFor(i)
          /\ history[ResultSlot(i)].name = message.tool_calls[i].name

C3_BufferShape ==
    [][ /\ IsPrefix(history, history')
        /\ (lpc' \in {"resubmit", "raised"} /\ lpc = "exec") => RoundShape'
        /\ resubs' > resubs => sent'[resubs'] = history ]_vars

\* C4 (malformed arguments): a call whose argument payload does not parse gets
\* a tool-result message carrying an error payload; the loop does not raise,
\* the other calls of the batch still run, and the loop goes on to resubmit.
C4_MalformedArguments ==
    /\ lpc # "raised"
    /\ lpc = "resubmit" =>
          \A i \in 1..Len(message.tool_calls) :
              /\ HasResultFor(i)
              /\ Malformed(i) => HasErrorResultFor(i)

\* C5 (batch failure isolation): when execute_tool fails for a call of the
\* batch, the failure is that call's tool-result message with an error payload,
\* every remaining call of the batch is still handled, and the loop goes on to
\* the resubmission.
ExecuteFailed(i) ==
    \E k \in 1..Len(executed) :
        executed[k] = <<message.tool_calls[i].id, "raised">>

C5_BatchFailureIsolation ==
    RoundOver =>
        \A i \in 1..Len(message.tool_calls) :
            ExecuteFailed(i) =>
                /\ HasErrorResultFor(i)
                /\ \A j \in (i + 1)..Len(message.tool_calls) : HasResultFor(j)
                /\ lpc = "resubmit"

\* C6 (resubmission failure): when a resubmission fails the loop stops at
\* once without raising: no further tool execution, no further resubmission,
\* and the text returned comes from the last response that was received (the
\* placeholder when its content is empty).
C6_ResubmissionFailure ==
    [][ /\ (apiFailed' /\ ~apiFailed) => (lpc' = "break" /\ history' = history)
        /\ apiFailed =>
              /\ lpc' = "returned"
              /\ resubs' = resubs
              /\ executed' = executed
              /\ history' = history
              /\ retText' = (IF LastResponse.content # NoContent
                             THEN LastResponse.content ELSE Placeholder) ]_vars

C6_Witness ==
    /\ lpc = "returned"
    /\ apiFailed
    /\ Len(responses) = 2
    /\ resubs = 2
    /\ LastResponse.content = "text"
    /\ retText = "text"

\* C27 (sequential batch execution): the tool calls of a batch are executed
\* one at a time in the order of message.tool_calls: a step executes at most
\* one call, it is the call at the next position, every call before it has
\* its result (or error) in the history and no call after it has; and the
\* history is resubmitted only when every call of the batch has its result,
\* the resubmitted history holding all of them.
C27_SequentialBatch ==
    [][ /\ Len(executed') <= Len(executed) + 1
        /\ executed' # executed =>
              /\ lpc = "exec"
              /\ executed'[Len(executed')][1] = message.tool_calls[callIdx].id
              /\ SubSeq(executed', 1, Len(executed)) = executed
              /\ \A i \in 1..Len(message.tool_calls) :
                    HasResultFor(i) <=> i < callIdx
              /\ Len(history') = ResultSlot(callIdx)
              /\ history'[ResultSlot(callIdx)].tool_call_id
                    = message.tool_calls[callIdx].id
        /\ resubs' # resubs =>
              /\ \A i \in 1..Len(message.tool_calls) : HasResultFor(i)
              /\ Len(history) = ResultSlot(Len(message.tool_calls))
              /\ sent' = Append(sent, history) ]_vars

\* a batch of two calls: the first one failed, the second one ran after it,
\* and the history with both results was resubmitted
C27_Witness ==
    /\ Len(responses[1].tool_calls) = 2
    /\ Len(executed) >= 2
    /\ executed[1] = <<responses[1].tool_calls[1].id, "raised">>
    /\ executed[2] = <<responses[1].tool_calls[2].id, "ok">>
    /\ resubs >= 1
    /\ Len(sent[1]) = Len(InitialHistory) + 3

\* C28 (final text): whenever execute_tool_loop returns, the returned text
\* is the content of the latest response if that content is not empty and
\* the placeholder otherwise; the returned text is never empty.
C28_FinalText ==
    lpc = "returned" =>
       /\ LastResponse.content # NoContent => retText = LastResponse.content
       /\ LastResponse.content = NoContent => retText = Placeholder
       /\ retText # NoContent

\* the loop ran tools, the response to the resubmission had no content and
\* no tool calls, and the placeholder was returned
C28_Witness ==
    /\ lpc = "returned"
    /\ resubs >= 1
    /\ ~apiFailed
    /\ LastResponse.content = NoContent
    /\ LastResponse.tool_calls = <<>>
    /\ retText = Placeholder

\* C32 (meaning of hitIterationCap): the flag is returned TRUE only when the
\* cap cut the loop short: the latest response still asks for tool calls and
\* no resubmission failed. It is FALSE when the response to the last allowed
\* resubmission has no tool calls and when the loop ended on a failed
\* resubmission. Stated for a cap of at least one round.
C32_CapFlagMeaning ==
    (lpc = "returned" /\ max_iterations >= 1 /\ retFlag) =>
       /\ LastResponse.tool_calls # <<>>
       /\ ~apiFailed
       /\ iteration >= max_iterations

\* ------------------------------------------------------------------------
\* Properties of MCPServerManager (checked under SpecMgr)
\* ------------------------------------------------------------------------

\* the step is a call of get_all_tools / execute_tool (neither the clock nor
\* the servers change during a call)
IsGetAllToolsStep ==
    last'.op = "get_all_tools" /\ now' = now /\ srvTools' = srvTools

IsExecuteToolStep ==
    last'.op = "execute_tool" /\ now' = now /\ srvTools' = srvTools

\* position of a server in self.configs
ConfigIndex(name) == CHOOSE i \in 1..Len(Configs) : Configs[i] = name

\* C7 (cache validity): in every reachable state _is_cache_valid() is true
\* iff the tool-name -> server map is non-empty and now - last refresh < ttl;
\* an empty cache is invalid whatever its timestamp.
C7_CacheValidity ==
    IsCacheValid(tool_cache, cache_timestamp, now)
        <=> (DOMAIN tool_cache # {} /\ now - cache_timestamp < CacheTtl)

\* an empty cache whose timestamp is fresh (a refresh in which no server
\* delivered a tool)
C7_Witness ==
    /\ DOMAIN tool_cache = {}
    /\ now - cache_timestamp < CacheTtl
    /\ last.op = "get_all_tools"
    /\ ~IsCacheValid(tool_cache, cache_timestamp, now)

\* C8 as stated: get_all_tools returns the cached list without contacting any
\* server exactly when the cache is valid at the time of the call, and runs a
\* full discovery otherwise.
C8_CachedIffValidOriginal ==
    [][ IsGetAllToolsStep =>
          ((~last'.refreshed /\ last'.contacts = <<>>
                /\ last'.value = tools_list_cache)
             <=> IsCacheValid(tool_cache, cache_timestamp, now)) ]_vars

\* C8 amended: get_all_tools returns the cached list without contacting any
\* server exactly when the cache is valid and the cached tool list is
\* non-empty; otherwise it runs a discovery over all configured servers and
\* returns the fresh list.
C8_CachedIffValidAndListed ==
    [][ IsGetAllToolsStep =>
          IF (DOMAIN tool_cache # {} /\ now - cache_timestamp < CacheTtl
                /\ tools_list_cache # <<>>)
          THEN /\ ~last'.refreshed
               /\ last'.contacts = <<>>
               /\ last'.value = tools_list_cache
               /\ UNCHANGED <<tool_cache, tools_list_cache, cache_timestamp,
                              active_sessions>>
          ELSE /\ last'.refreshed
               /\ \A s \in Servers : last'.disc[s] # "none"
               /\ last'.value = tools_list_cache'
               /\ cache_timestamp' = now ]_vars

\* a cached return has happened
C8_Witness ==
    /\ last.op = "get_all_tools"
    /\ ~last.refreshed
    /\ last.contacts = <<>>
    /\ last.value # <<>>
    /\ last.value = tools_list_cache

\* the tools a refresh must return: those of the servers whose discovery
\* succeeded, in configuration order
RECURSIVE ToolsOfDiscovered(_, _, _)
ToolsOfDiscovered(i, disc, tools) ==
    IF i > Len(Configs)
    THEN <<>>
    ELSE (IF disc[Configs[i]] = "ok"
          THEN FormatTools(Configs[i], tools[Configs[i]])
          ELSE <<>>) \o ToolsOfDiscovered(i + 1, disc, tools)

\* C9 (discovery isolation): get_all_tools never raises because a server
\* failed to connect or to list its tools; it returns the tools of every
\* server whose discovery succeeded.
C9_DiscoveryIsolation ==
    [][ (IsGetAllToolsStep /\ last'.refreshed) =>
          /\ last'.outcome = "returned"
          /\ \A s \in Servers : last'.disc[s] # "none"
          /\ last'.value = ToolsOfDiscovered(1, last'.disc, srvTools) ]_vars

\* server A failed, the tools of server B were returned
C9_Witness ==
    /\ last.op = "get_all_tools"
    /\ last.refreshed
    /\ last.outcome = "returned"
    /\ last.disc["A"] = "failed"
    /\ last.disc["B"] = "ok"
    /\ \E i \in 1..Len(last.value) : last.value[i]._mcp_server = "B"

\* server b is the first one, in configuration order, whose discovery
\* succeeded and reported the tool
FirstOwner(b, disc, tool) ==
    /\ disc[b] = "ok"
    /\ tool \in srvTools[b]
    /\ \A c \in Servers :
          ConfigIndex(c) < ConfigIndex(b) => ~(disc[c] = "ok" /\ tool \in srvTools[c])

\* C10 (search isolation): in the linear search of execute_tool a server that
\* fails to connect or to list its tools is skipped: the servers after it are
\* still asked, and a tool owned by a later healthy server is found and
\* dispatched there.
C10_SearchIsolation ==
    [][ (IsExecuteToolStep /\ last'.searched) =>
          \A a \in Servers : last'.disc[a] = "failed" =>
              \A b \in Servers : ConfigIndex(a) < ConfigIndex(b) =>
                  /\ \/ last'.disc[b] # "none"
                     \/ \E c \in Servers :
                           /\ ConfigIndex(c) < ConfigIndex(b)
                           /\ FirstOwner(c, last'.disc, last'.tool)
                  /\ FirstOwner(b, last'.disc, last'.tool) =>
                        /\ last'.exc # "notfound"
                        /\ last'.contacts[Len(last'.contacts)] = <<b, "call_tool">>
                        /\ last'.outcome = "returned" =>
                              last'.value = ToolResult(last'.tool, b) ]_vars

\* A failed during the search, the tool was found on B and executed there
C10_Witness ==
    /\ last.op = "execute_tool"
    /\ last.searched
    /\ last.disc["A"] = "failed"
    /\ last.disc["B"] = "ok"
    /\ last.outcome = "returned"
    /\ last.value = ToolResult(last.tool, "B")

\* the server execute_tool dispatched (or tried to dispatch) the call to in
\* this step: the cached one, or the one the search found
IsDispatchTarget(s) ==
    IF last'.searched
    THEN FirstOwner(s, last'.disc, last'.tool)
    ELSE /\ last'.tool \in DOMAIN tool_cache
         /\ tool_cache[last'.tool] = s

\* C11 (cache eviction on dispatch failure): when execute_tool(x) fails with
\* an execution error other than a timeout, the error reaches the caller, the
\* session of the server the call was dispatched to is closed and x is no
\* longer in the tool cache, so a cache lookup of x misses; an execute_tool(x)
\* that follows directly runs the search.
C11_EvictionOnError ==
    [][ /\ (IsExecuteToolStep /\ last'.exc = "error") =>
              /\ last'.outcome = "raised"
              /\ \E s \in Servers : IsDispatchTarget(s)
              /\ \A s \in Servers :
                    IsDispatchTarget(s) => s \notin DOMAIN active_sessions'
              /\ last'.tool \notin DOMAIN tool_cache'
              /\ GetConfigFromCache(tool_cache', cache_timestamp', now',
                                    last'.tool) = "None"
        /\ (IsExecuteToolStep /\ last.op = "execute_tool" /\ last.exc = "error"
               /\ last'.tool = last.tool) =>
              last'.searched ]_vars

\* a call routed by the cache failed with an execution error on the server
\* and the entry is gone, although the rest of the cache is still valid
C11_Witness ==
    /\ last.op = "execute_tool"
    /\ ~last.searched
    /\ last.exc = "error"
    /\ last.contacts = << <<"B", "call_tool">> >>
    /\ last.tool \notin DOMAIN tool_cache
    /\ "B" \notin DOMAIN active_sessions
    /\ IsCacheValid(tool_cache, cache_timestamp, now)

\* every server starts and answers
AllOk == [s \in Servers |-> "ok"]

\* the accumulator execute_tool hands to the dispatch when the cache named
\* the server
CachedAcc ==
    [sessions |-> active_sessions, cache |-> tool_cache, contacts |-> <<>>,
     disc |-> NoOp.disc, found |-> "None", raised |-> FALSE]

\* C12 (timeout teardown): a dispatch that does not complete within the
\* timeout makes execute_tool fail with a timeout error, and the session of
\* the server the call was sent to is closed and removed from the session
\* table, so that a later request for that server has to connect anew.
C12_TimeoutTeardown ==
    /\ (last.op = "execute_tool" /\ last.exc = "timeout") =>
          /\ last.outcome = "raised"
          /\ last.contacts # <<>>
          /\ \E s \in Servers :
                /\ last.contacts[Len(last.contacts)] = <<s, "call_tool">>
                /\ s \notin DOMAIN active_sessions
                /\ GetOrCreateSession(active_sessions, s, now, TRUE).created
    /\ \A s \in Servers, x \in MgrTools :
          \E r \in { ExecuteToolOnServer(CachedAcc, s, x, AllOk, "timeout",
                                         now) } :
             /\ r.outcome = "raised"
             /\ r.exc = "timeout"
             /\ s \notin DOMAIN r.sessions

\* a call on a pooled session of B timed out and B has no session any more
C12_Witness ==
    /\ last.op = "execute_tool"
    /\ last.exc = "timeout"
    /\ last.outcome = "raised"
    /\ last.contacts = << <<"B", "call_tool">> >>
    /\ "B" \notin DOMAIN active_sessions
    /\ "A" \in DOMAIN active_sessions

\* C13 (cache-hit routing): when the cache is valid and maps tool X to a
\* configured server S, execute_tool(X) sends no list_tools request to any
\* server and contacts no server other than S: it opens or reuses the session
\* of S and sends the call_tool request there (nothing is sent only when the
\* connection to S cannot be made, and the call then fails).
C13_CacheHitRouting ==
    [][ \A s \in Servers :
          (/\ IsExecuteToolStep
           /\ DOMAIN tool_cache # {}
           /\ now - cache_timestamp < CacheTtl
           /\ last'.tool \in DOMAIN tool_cache
           /\ tool_cache[last'.tool] = s) =>
              /\ ~last'.searched
              /\ \A c \in Servers : last'.disc[c] = "none"
              /\ \/ last'.contacts = << <<s, "call_tool">> >>
                 \/ /\ last'.contacts = <<>>
                    /\ last'.exc = "error"
                    /\ s \notin DOMAIN active_sessions'
              /\ last'.outcome = "returned" =>
                    /\ last'.value = ToolResult(last'.tool, s)
                    /\ s \in DOMAIN active_sessions'
                    /\ active_sessions'[s].last_used = now ]_vars

\* a call routed by the cache to A returned A's result although B, too,
\* exposes the tool
C13_Witness ==
    /\ last.op = "execute_tool"
    /\ ~last.searched
    /\ last.contacts = << <<"A", "call_tool">> >>
    /\ last.outcome = "returned"
    /\ last.value = ToolResult(last.tool, "A")
    /\ last.tool \in srvTools["B"]

\* C14 (stale-mapping fallback): when the valid cache maps tool X to server S,
\* S no longer exposes X and another configured server does, execute_tool(X)
\* runs the linear search in the same call; when the search reaches a server
\* that owns X, the cache entry of X is set to it and the call is sent there.
C14_StaleMappingFallback ==
    [][ \A s \in Servers :
          (/\ IsExecuteToolStep
           /\ DOMAIN tool_cache # {}
           /\ now - cache_timestamp < CacheTtl
           /\ last'.tool \in DOMAIN tool_cache
           /\ tool_cache[last'.tool] = s
           /\ last'.tool \notin srvTools[s]
           /\ \E b \in Servers \ {s} : last'.tool \in srvTools[b]) =>
              /\ last'.searched
              /\ \A b \in Servers :
                    FirstOwner(b, last'.disc, last'.tool) =>
                       /\ last'.contacts[Len(last'.contacts)] = <<b, "call_tool">>
                       /\ last'.outcome = "returned" =>
                             /\ last'.value = ToolResult(last'.tool, b)
                             /\ tool_cache'[last'.tool] = b ]_vars

\* C15 (tool not found): execute_tool(X) fails with the not-found error
\* exactly when the cache lookup missed, the search asked every configured
\* server, and no server reported X (a server that could not be reached or
\* listed reports nothing); in that case only list_tools requests were sent
\* and no call_tool request went to any server.
C15_ToolNotFound ==
    [][ IsExecuteToolStep =>
          /\ last'.exc = "notfound" <=>
                /\ ~(/\ DOMAIN tool_cache # {}
                     /\ now - cache_timestamp < CacheTtl
                     /\ last'.tool \in DOMAIN tool_cache)
                /\ \A s \in Servers : last'.disc[s] # "none"
                /\ \A s \in Servers :
                      ~(last'.disc[s] = "ok" /\ last'.tool \in srvTools[s])
          /\ last'.exc = "notfound" =>
                /\ last'.outcome = "raised"
                /\ last'.searched
                /\ \A j \in 1..Len(last'.contacts) :
                      last'.contacts[j][2] = "list_tools" ]_vars

\* the search listed A, which lacks the tool, could not reach B, and the call
\* failed with not-found
C15_Witness ==
    /\ last.op = "execute_tool"
    /\ last.exc = "notfound"
    /\ last.disc["A"] = "ok"
    /\ last.disc["B"] = "failed"
    /\ last.contacts[1] = <<"A", "list_tools">>
    /\ last.tool \in srvTools["B"]

\* the accumulator get_all_tools starts a discovery with
DiscoveryAcc ==
    [sessions |-> active_sessions, cache |-> tool_cache, all_tools |-> <<>>,
     contacts |-> <<>>, disc |-> NoOp.disc, raised |-> FALSE]

\* the last call closed the session of s because s failed: its discovery
\* failed, or a call dispatched to it timed out or raised
ClosedByFailure(s) ==
    /\ s \notin DOMAIN active_sessions
    /\ \/ last.disc[s] = "failed"
       \/ /\ last.exc \in {"timeout", "error"}
          /\ last.contacts # <<>>
          /\ last.contacts[Len(last.contacts)] = <<s, "call_tool">>

\* C20 (lazy reconnection): in every reachable state in which server S has no
\* session, in particular after a discovery failure, an execution error or a
\* timeout closed it, the next request that needs S opens a fresh session if
\* the server starts: _get_or_create_session creates and records one, a
\* discovery lists S again, and a call dispatched to S returns its result.
\* No state keeps S from being connected again.
C20_LazyReconnection ==
    \A s \in Servers :
       s \notin DOMAIN active_sessions =>
          /\ \E g \in { GetOrCreateSession(active_sessions, s, now, TRUE) } :
                /\ g.ok /\ g.created
                /\ s \in DOMAIN g.sessions
                /\ g.sessions[s].last_used = now
          /\ \E d \in { DiscoverFrom(DiscoveryAcc, 1, AllOk, srvTools, now) } :
                /\ ~d.raised
                /\ d.disc[s] = "ok"
                /\ s \in DOMAIN d.sessions
          /\ \A x \in srvTools[s] :
                \E r \in { ExecuteToolOnServer(CachedAcc, s, x, AllOk, "ok",
                                               now) } :
                   /\ r.outcome = "returned"
                   /\ r.value = ToolResult(x, s)
                   /\ s \in DOMAIN r.sessions

\* a call routed to A timed out and closed A's session; the cache still maps
\* the tool to A, so the next call of that tool needs A again
C20_Witness ==
    /\ ClosedByFailure("A")
    /\ last.op = "execute_tool"
    /\ last.exc = "timeout"
    /\ last.tool \in DOMAIN tool_cache
    /\ tool_cache[last.tool] = "A"
    /\ last.tool \in srvTools["A"]

\* C21 (discovery failure teardown): when the discovery of server S fails
\* during a refresh of get_all_tools, at the connection or at list_tools, the
\* refresh still returns and S has no entry in the session table afterwards:
\* the session that was open on S when list_tools failed has been closed and
\* the next request for S has to connect anew.
C21_DiscoveryFailureTeardown ==
    (last.op = "get_all_tools" /\ last.refreshed) =>
       /\ last.outcome = "returned"
       /\ last.exc = "none"
       /\ \A s \in Servers :
             last.disc[s] = "failed" =>
                /\ s \notin DOMAIN active_sessions
                /\ GetOrCreateSession(active_sessions, s, now, TRUE).created

\* list_tools failed on a session of A: the refresh returned, A has no
\* session and B, whose discovery succeeded, kept its own
C21_Witness ==
    /\ last.op = "get_all_tools"
    /\ last.refreshed
    /\ last.outcome = "returned"
    /\ last.disc["A"] = "failed"
    /\ \E i \in 1..Len(last.contacts) : last.contacts[i] = <<"A", "list_tools">>
    /\ "A" \notin DOMAIN active_sessions
    /\ "B" \in DOMAIN active_sessions

\* the tools reported during a refresh by the servers whose discovery
\* succeeded
ReportedTools(disc, tools) ==
    UNION { tools[s] : s \in { b \in Servers : disc[b] = "ok" } }

\* C22 (refresh rebuilds the cache): after a refresh of get_all_tools the
\* tool cache holds exactly the tools reported during that refresh by the
\* servers whose discovery succeeded, each mapped to such a server that
\* reported it; the returned tool list names the same tools; and the cache
\* timestamp is the time of the refresh.
C22_RefreshRebuildsCache ==
    [][ (IsGetAllToolsStep /\ last'.refreshed /\ last'.outcome = "returned") =>
          /\ DOMAIN tool_cache' = ReportedTools(last'.disc, srvTools)
          /\ \A x \in DOMAIN tool_cache' :
                /\ last'.disc[tool_cache'[x]] = "ok"
                /\ x \in srvTools[tool_cache'[x]]
          /\ { tools_list_cache'[i].name : i \in 1..Len(tools_list_cache') }
                = ReportedTools(last'.disc, srvTools)
          /\ cache_timestamp' = now ]_vars

\* C29 (timeouts handled like execution errors): after execute_tool(x) timed
\* out, the session of the server the call was sent to is closed and x is no
\* longer in the tool cache, as after any other execution error.
C29_TimeoutLikeError ==
    [][ (IsExecuteToolStep /\ last'.exc \in {"timeout", "error"}
            /\ \E s \in Servers : IsDispatchTarget(s)) =>
          /\ last'.outcome = "raised"
          /\ \A s \in Servers :
                IsDispatchTarget(s) => s \notin DOMAIN active_sessions'
          /\ last'.tool \notin DOMAIN tool_cache' ]_vars

\* the step is a call of close_all_sessions
IsCloseAllStep ==
    last'.op = "close_all_sessions" /\ now' = now /\ srvTools' = srvTools

\* C23 (close_all_sessions): a call of close_all_sessions closes every
\* session of the table, each one once, whether or not the context managers
\* of the sessions closed before it exited with an error; the call returns
\* without raising and the session table is empty afterwards.
C23_CloseAllSessions ==
    [][ IsCloseAllStep =>
          /\ last'.outcome = "returned"
          /\ last'.exc = "none"
          /\ active_sessions' = EmptyMap
          /\ Len(last'.closing) = Cardinality(DOMAIN active_sessions)
          /\ \A s \in DOMAIN active_sessions :
                \E i \in 1..Len(last'.closing) : last'.closing[i][1] = s ]_vars

\* the close of A, the first in the list, ended with an error; B was
\* closed after it and the table is empty
C23_Witness ==
    /\ last.op = "close_all_sessions"
    /\ last.outcome = "returned"
    /\ last.closing = << <<"A", "close_error">>, <<"B", "closed">> >>
    /\ active_sessions = EmptyMap

\* C33 (the search leaves a usable cache entry): when execute_tool(X) found X
\* by the search and the dispatch returned, the next execute_tool(X) made
\* within the cache ttl of that search is routed by the cache and sends no
\* list_tools request, whether or not get_all_tools ever ran. A call made
\* less than the ttl after the manager was created is within the ttl of
\* every search.
C33_SearchPopulatesCache ==
    [][ (/\ last.op = "execute_tool"
         /\ last.searched
         /\ last.outcome = "returned"
         /\ IsExecuteToolStep
         /\ last'.tool = last.tool
         /\ now - StartTime < CacheTtl) =>
            /\ ~last'.searched
            /\ \A i \in 1..Len(last'.contacts) :
                  last'.contacts[i][2] # "list_tools" ]_vars

\* the server the linear search finds for tool x when every server answers
SearchedOwner(x) ==
    FindFrom(CachedAcc, 1, x, AllOk, srvTools, now).found

\* C34 (deterministic routing of duplicate tool names): a tool is routed to
\* the same server whether get_all_tools or the search of execute_tool wrote
\* its cache entry: whenever execute_tool(x) is routed by the cache and the
\* call returns, the server that ran it is the server the linear search
\* finds for x in that state.
C34_DuplicateNameRouting ==
    [][ (IsExecuteToolStep /\ ~last'.searched /\ last'.outcome = "returned") =>
          last'.value = ToolResult(last'.tool, SearchedOwner(last'.tool)) ]_vars

\* C35 (failure frame): when the dispatch of execute_tool(x) to server A
\* fails with a timeout or an execution error, A has no session afterwards,
\* the session entry of every server the call did not contact is as before,
\* the cache entries of all tools other than x are as before, and the tool
\* list and the cache timestamp are unchanged; the entry of x is removed by
\* an execution error and left mapped to A by a timeout.
C35_FailureFrame ==
    [][ (IsExecuteToolStep /\ last'.exc \in {"timeout", "error"}) =>
          \A a \in Servers : IsDispatchTarget(a) =>
             /\ a \notin DOMAIN active_sessions'
             /\ \A b \in Servers \ {a} :
                   last'.disc[b] = "none" =>
                      /\ b \in DOMAIN active_sessions'
                            <=> b \in DOMAIN active_sessions
                      /\ b \in DOMAIN active_sessions =>
                            active_sessions'[b] = active_sessions[b]
             /\ \A y \in MgrTools \ {last'.tool} :
                   /\ y \in DOMAIN tool_cache' <=> y \in DOMAIN tool_cache
                   /\ y \in DOMAIN tool_cache => tool_cache'[y] = tool_cache[y]
             /\ tools_list_cache' = tools_list_cache
             /\ cache_timestamp' = cache_timestamp
             /\ last'.exc = "error" => last'.tool \notin DOMAIN tool_cache'
             /\ last'.exc = "timeout" =>
                   /\ last'.tool \in DOMAIN tool_cache'
                   /\ tool_cache'[last'.tool] = a ]_vars

\* a call of lookup routed to A by the cache failed with an execution error:
\* A's session and the entry of lookup are gone, B's session, the entry of
\* fetch and the tool list are still there
C35_Witness ==
    /\ last.op = "execute_tool"
    /\ last.tool = "lookup"
    /\ ~last.searched
    /\ last.exc = "error"
    /\ last.contacts = << <<"A", "call_tool">> >>
    /\ "A" \notin DOMAIN active_sessions
    /\ "B" \in DOMAIN active_sessions
    /\ DOMAIN tool_cache = {"fetch"}
    /\ tools_list_cache # <<>>

\* ------------------------------------------------------------------------
\* Properties of MCPServerManager under concurrent calls (checked under
\* SpecConc)
\* ------------------------------------------------------------------------

\* the coroutines whose list_tools / call_tool request is in flight on
\* session id
InFlightOn(id) ==
    { p \in Procs : co[p].pc = "inflight" /\ co[p].session = id }

\* coroutine p sends a protocol request in this step
StartsRequest(p) ==
    /\ co'[p].pc = "inflight"
    /\ co[p].pc # "inflight" \/ co[p].stage # co'[p].stage

\* the protocol request of coroutine p ends in this step
EndsRequest(p) ==
    /\ co[p].pc = "inflight"
    /\ co'[p] # co[p]

\* C16 (serialized single-server dispatch): the requests of concurrent calls
\* on one server's session are performed one at a time: no session ever has
\* two protocol requests in flight.
C16_SerializedDispatch ==
    \A id \in 1..Len(sess) : Cardinality(InFlightOn(id)) <= 1

\* C17 (sibling isolation under concurrency): a timeout or execution error of
\* one execute_tool call never makes a get_all_tools / execute_tool call that
\* runs at the same time fail: when the request of a coroutine ends, its
\* session has not been closed by the timeout or error handling of another
\* coroutine's dispatch.
C17_SiblingIsolation ==
    [][ \A p \in Procs :
          EndsRequest(p) =>
             \/ sess[co[p].session].live
             \/ sess[co[p].session].why \notin {"timeout", "error"} ]_vars

\* the sessions whose subprocess is running
LiveSessions == { id \in 1..Len(sess) : sess[id].live }

\* C18 (one connection per server): in every reachable state the number of
\* live sessions is at most the number of configured servers (one per
\* server), and once no call is in progress every live session is the one
\* recorded in the session table.
C18_OneConnectionPerServer ==
    /\ Cardinality(LiveSessions) <= Len(ConcConfigs)
    /\ (\A p \in Procs : co[p].pc = "idle") =>
          \A id \in LiveSessions :
             \E s \in DOMAIN active_sessions : active_sessions[s].session = id

\* C19 (no use after stop): no protocol request is sent on a session that has
\* been closed, and a call whose session is closed while its request is in
\* flight ends with a not-running error.
C19_NoUseAfterStop ==
    [][ \A p \in Procs :
          /\ StartsRequest(p) => sess'[co'[p].session].live
          /\ (EndsRequest(p) /\ ~sess[co[p].session].live) =>
                co'[p].result = "notrunning" ]_vars

\* the awaits of _close_session return to coroutine p in this step
EndsClose(p) ==
    /\ co[p].pc = "closing"
    /\ co'[p] # co[p]

\* C30 (stop is idempotent): a _close_session that resumes after its awaits
\* never raises KeyError, also when another coroutine closed the same server
\* in between, and the server has no entry in the session table afterwards.
C30_IdempotentStop ==
    [][ \A p \in Procs :
          EndsClose(p) =>
             /\ co'[p].result # "keyerror"
             /\ ConcConfigs[1] \in DOMAIN active_sessions
             /\ ConcConfigs[1] \notin DOMAIN active_sessions' ]_vars

\* coroutine p is inside execute_tool and suspended in an await on the
\* server: the connection with its handshake, or the list_tools of the
\* search or call_tool on a session that nobody has closed
ExecuteToolAwaitsServer(p) ==
    /\ co[p].tool # "none"
    /\ \/ co[p].pc = "connecting"
       \/ co[p].pc = "inflight" /\ sess[co[p].session].live

\* C24 (every dispatch is bounded by a timeout): an execute_tool that waits
\* for the server, at the connection, the discovery or the call, does not
\* wait forever: it eventually leaves the await, with the answer or with an
\* error.
C24_DispatchBounded ==
    \A p \in Procs :
       ExecuteToolAwaitsServer(p) ~> ~ExecuteToolAwaitsServer(p)

\* C25 (bounded shutdown): a close_all_sessions that waits for the context
\* managers of a session to exit eventually returns, also when they never
\* exit.
C25_BoundedShutdown ==
    \A p \in Procs :
       (co[p].pc = "closing" /\ co[p].cont = "close_all") ~> co[p].pc = "idle"

\* ------------------------------------------------------------------------
\* Properties of _extract_result_content (checked under SpecExtract)
\* ------------------------------------------------------------------------

\* the first content item of the result carries text
FirstItemHasText ==
    /\ mcp_result.has_content
    /\ mcp_result.content # <<>>
    /\ HasText(mcp_result.content[1])

\* C26 as stated: the extraction returns the text of the first content item
\* if that item carries text, and otherwise (no content, empty content, first
\* item without text) the string rendering of the whole result.
C26_ExtractionOriginal ==
    extracted # Unset =>
       extracted = IF FirstItemHasText
                   THEN TextValue(mcp_result.content[1].text)
                   ELSE StrOfResult(mcp_result)

\* C26 (result extraction): the extraction returns the text of the first
\* content item if that item carries text; the string rendering of the first
\* content item if the content is not empty and its first item carries no
\* text; and the string rendering of the whole result if the result has no
\* content or an empty content list. Items after the first are never looked
\* at.
C26_ResultExtraction ==
    extracted # Unset =>
       extracted = IF FirstItemHasText
                   THEN TextValue(mcp_result.content[1].text)
                   ELSE IF mcp_result.has_content /\ mcp_result.content # <<>>
                   THEN StrOfItem(mcp_result.content[1])
                   ELSE StrOfResult(mcp_result)

\* an image followed by a text item: the rendering of the image was
\* returned, neither the text nor the rendering of the result
C26_Witness ==
    /\ Len(mcp_result.content) = 2
    /\ mcp_result.content[1].type = "image"
    /\ mcp_result.content[2].type = "text"
    /\ extracted = StrOfItem(mcp_result.content[1])
    /\ extracted # StrOfResult(mcp_result)

\* ------------------------------------------------------------------------
\* Properties of the session pool with one caller at a time (checked under
\* SpecSeq)
\* ------------------------------------------------------------------------

\* the session of the table was last used less than the session ttl ago
PooledFresh(name) ==
    /\ name \in DOMAIN active_sessions
    /\ (now - active_sessions[name].last_used) < SessionTtl

\* coroutine p enters _get_or_create_session in this step
EntersGetOrCreate(p) ==
    /\ co'[p] # co[p]
    /\ co[p].pc \in {"idle", "inflight"}
    /\ \/ StartsRequest(p)
       \/ co'[p].pc = "connecting"
       \/ co'[p].pc = "closing" /\ co'[p].cont = "connect"

\* C36 (session ttl): a call of _get_or_create_session hands out the pooled
\* session, with its last-used time set to now, exactly when the table has a
\* session that was last used less than the session ttl ago. A pooled
\* session that is older is closed and its entry is removed before the new
\* session is created, and no request is ever sent on a session that has
\* been closed.
C36_SessionTtl ==
    [][ \A p \in Callers :
          /\ EntersGetOrCreate(p) =>
                /\ PooledFresh(ConcConfigs[1]) <=> StartsRequest(p)
                /\ StartsRequest(p) =>
                      /\ co'[p].session = active_sessions[ConcConfigs[1]].session
                      /\ active_sessions'[ConcConfigs[1]].last_used = now
                /\ (ConcConfigs[1] \in DOMAIN active_sessions
                       /\ ~PooledFresh(ConcConfigs[1])) =>
                      /\ co'[p].pc = "closing"
                      /\ ~sess'[active_sessions[ConcConfigs[1]].session].live
          /\ (co[p].pc = "connecting" /\ co'[p].pc = "inflight") =>
                /\ ConcConfigs[1] \notin DOMAIN active_sessions
                /\ \A id \in 1..Len(sess) : ~sess[id].live
                /\ co'[p].session = Len(sess) + 1
          /\ StartsRequest(p) => sess'[co'[p].session].live ]_vars

\* the first session of A expired in the pool and was closed for that reason;
\* the table holds the second one and a request is in flight on it
C36_Witness ==
    /\ Len(sess) = 2
    /\ sess[1] = [live |-> FALSE, why |-> "expired"]
    /\ sess[2].live
    /\ "A" \in DOMAIN active_sessions
    /\ active_sessions["A"].session = 2
    /\ co["p1"].pc = "inflight"
    /\ co["p1"].session = 2

\* ------------------------------------------------------------------------
\* Properties of process_text_message (checked under SpecProc)
\* ------------------------------------------------------------------------

\* C31: after the first call of the LLM API failed with a bad-request
\* error, process_text_message makes at most API_MAX_RETRIES further
\* attempts, never calls itself, and, when every attempt failed, ends by
\* returning the fixed error message
C31_BoundedRetry ==
    /\ creates <= 1 + API_MAX_RETRIES
    /\ depth = 0
    /\ (bad_request /\ failures = creates /\ ppc \in {"returned", "raised"})
         => (ppc = "returned" /\ ai_response = RetryErrorMessage)

\* the last n messages of h
LastMessages(h, n) ==
    IF Len(h) > n THEN SubSeq(h, Len(h) - n + 1, Len(h)) ELSE h

\* h holds user and assistant text messages only
TextOnly(h) ==
    \A i \in 1..Len(h) :
        h[i].role \in {"user", "assistant"} /\ ~h[i].tool_calls

\* the call returned the text of an LLM response
Answered == ppc = "returned" /\ failures < creates

\* the call returned the fixed error message
GaveUp == ppc = "returned" /\ failures = creates

\* C37 as stated: whenever process_text_message has returned, the stored
\* history is the history stored before the call, trimmed to its last
\* MAX_HISTORY_LENGTH messages, followed by the user message and the text
\* returned, and holds text messages of the user and the assistant only
C37_PersistedOriginal ==
    ppc = "returned" =>
        /\ s3_history = LastMessages(entry_history, MAX_HISTORY_LENGTH)
                            \o <<UserMessage, Msg("assistant", ai_response)>>
        /\ TextOnly(s3_history)

\* C37: when process_text_message returns the text of an LLM response, the
\* stored history is the history read by the invocation that got the
\* response, trimmed to its last MAX_HISTORY_LENGTH messages, followed by
\* the user message and the returned text; when it returns the fixed error
\* message the stored history is empty; and the stored history never holds
\* a system, tool-call or tool-result message
C37_PersistedHistory ==
    /\ Answered =>
         s3_history = LastMessages(read_history, MAX_HISTORY_LENGTH)
                          \o <<UserMessage, Msg("assistant", ai_response)>>
    /\ (Answered /\ copy = "processor") => read_history = entry_history
    /\ GaveUp => s3_history = <<>>
    /\ TextOnly(s3_history)

\* a history longer than MAX_HISTORY_LENGTH was read, tool rounds ran, and
\* the call returned the text of the response
C37_Witness ==
    /\ Answered
    /\ Len(read_history) > MAX_HISTORY_LENGTH
    /\ tool_iteration >= 1
    /\ s3_history # <<>>

\* ------------------------------------------------------------------------
\* Properties of check_rate_limit (checked under SpecRate)
\* ------------------------------------------------------------------------

\* a message went through the wrapper and check_rate_limit was called
IsRateCheckStep ==
    /\ rate_last' # NoCheck
    /\ ~rate_last'.admin
    /\ clock' = clock

\* every RATE_LIMIT_REQUESTS + 1 successive allowed calls of the chat span
\* RATE_LIMIT_WINDOW seconds or more
WindowRespected(log) ==
    \A i \in 1..Len(log) :
        i + RATE_LIMIT_REQUESTS <= Len(log) =>
            log[i + RATE_LIMIT_REQUESTS] - log[i] >= WindowTicks

\* the timestamps of stamps that are less than RATE_LIMIT_WINDOW seconds old
StillCounted(stamps, t) ==
    SelectSeq(stamps, LAMBDA ts : t - ts < RATE_LIMIT_WINDOW * TicksPerSecond)

\* C38: in every call of check_rate_limit, the chat is never allowed more
\* than RATE_LIMIT_REQUESTS calls within an interval shorter than
\* RATE_LIMIT_WINDOW seconds; a denied call adds no timestamp; the reported
\* wait_time is between 0 and RATE_LIMIT_WINDOW; and the timestamps of
\* every other chat stay as they were
C38_RateLimitBound ==
    [][IsRateCheckStep =>
        /\ \A c \in Chats : WindowRespected(allowed_log'[c])
        /\ ~rate_last'.allowed =>
             /\ StampsOf(rate_limit_data', rate_last'.chat) =
                    StillCounted(StampsOf(rate_limit_data, rate_last'.chat), clock)
             /\ allowed_log' = allowed_log
        /\ rate_last'.wait_time \in 0..RATE_LIMIT_WINDOW
        /\ \A c \in Chats \ {rate_last'.chat} :
             /\ StampsOf(rate_limit_data', c) = StampsOf(rate_limit_data, c)
             /\ allowed_log'[c] = allowed_log[c]
    ]_vars

\* a call of one chat is denied with a wait, after that chat was allowed
\* again when its first window had passed, while the other chat has
\* timestamps of its own
C38_Witness ==
    /\ rate_last.chat = "c1"
    /\ ~rate_last.admin
    /\ ~rate_last.allowed
    /\ rate_last.wait_time > 0
    /\ Len(allowed_log["c1"]) > RATE_LIMIT_REQUESTS
    /\ StampsOf(rate_limit_data, "c2") # <<>>

\* ------------------------------------------------------------------------
\* Properties of the typing indicator (checked under SpecTyping)
\* ------------------------------------------------------------------------

\* the typing threads of chat c that still send: alive, event not set
ActiveIndicators(c) ==
    {i \in 1..Len(typing_threads) :
        /\ typing_threads[i].chat = c
        /\ typing_threads[i].alive
        /\ ~typing_threads[i].stop_event}

\* C39: a chat never has two active typing indicators, and whenever the
\* message handler has finished, on the success path or on the error path,
\* every indicator started has been told to stop and the table of typing
\* indicators has no entry left
C39_TypingLifecycle ==
    /\ \A c \in Chats : Cardinality(ActiveIndicators(c)) <= 1
    /\ echo.pc = "idle" =>
         /\ typing_states = EmptyMap
         /\ \A i \in 1..Len(typing_threads) : typing_threads[i].stop_event

\* ------------------------------------------------------------------------
\* Properties of the access control (checked under SpecAuth)
\* ------------------------------------------------------------------------

\* the status stored for the user, "none" if the user is not registered
StoredStatus(db, username) ==
    IF Lower(username) \in DOMAIN db THEN db[Lower(username)] ELSE "none"

\* the step is a call of is_authorized or should_process_message
IsAccessCheck(op) == op \in {"is_authorized", "should_process_message"}

\* C40: in every step, a non-admin user found authorized has the stored
\* status 'approved'; is_authorized stores a valid username it sees for the
\* first time as 'pending' and leaves the status of every registered user
\* as it was; and a status that changes is changed by set_user_status
C40_AccessStateMachine ==
    [][
        /\ (/\ IsAccessCheck(auth_last'.op)
            /\ auth_last'.ok
            /\ ~IsAdmin(auth_last'.username))
           => /\ StoredStatus(users_db, auth_last'.username) = "approved"
              /\ StoredStatus(users_db', auth_last'.username) = "approved"
        /\ (/\ auth_last'.op = "is_authorized"
            /\ ValidateUsername(auth_last'.username)
            /\ ~IsAdmin(auth_last'.username)
            /\ StoredStatus(users_db, auth_last'.username) = "none")
           => /\ StoredStatus(users_db', auth_last'.username) = "pending"
              /\ ~auth_last'.ok
        /\ IsAccessCheck(auth_last'.op)
           => \A k \in DOMAIN users_db :
                  k \in DOMAIN users_db' /\ users_db'[k] = users_db[k]
        /\ \A k \in DOMAIN users_db :
               (k \notin DOMAIN users_db' \/ users_db'[k] # users_db[k])
                   => auth_last'.op = "set_user_status"
    ]_vars

\* a registered user who was denied sends another message and is refused,
\* still denied, while another user is approved
C40_Witness ==
    /\ auth_last.op = "is_authorized"
    /\ auth_last.username = "Alice_W"
    /\ ~auth_last.ok
    /\ StoredStatus(users_db, "alice_w") = "denied"
    /\ StoredStatus(users_db, "bob_77") = "approved"

====
